---- MODULE Spec2Model ----
(***************************************************************************)
(* Credential vault (app/database.py), cipher (app/encryption.py) and      *)
(* batch visibility orchestration (app/handlers.py, app/github_api.py,     *)
(* app/utils.py) of the GitHub visibility bot.                             *)
(*                                                                         *)
(* The github_apis table is kept as a sequence of rows in created_at       *)
(* order, oldest first: datetime.utcnow() of a write is later than every   *)
(* stored timestamp, so an INSERT appends a row and an UPDATE that resets  *)
(* created_at moves the row to the end.                                    *)
(***************************************************************************)
EXTENDS Integers, Sequences, FiniteSets, TLC

VARIABLES
    github_apis,   \* committed rows of table github_apis
    cipher,        \* Database.cipher, the process-wide Fernet object
    conn,          \* per pooled connection: statements executed and not yet committed
    task,          \* per connection: the set_active_api call running on it, if any
    last,          \* the last completed Database call and what it returned
    added,         \* history: the plaintext credential last stored per (tenant, name)
    remote,        \* the repositories as the remote service holds them
    remote_calls,  \* history: the remote calls issued since the last batch or command began
    batch,         \* the _execute_batch_toggle call in progress, or the last one
    executed,      \* history: how many batch executions have begun
    reply,         \* the last message a handler of the chat layer sent
    repositories,  \* rows of table repositories, the repository-status cache
    audit_logs,    \* rows of table audit_logs, oldest first
    gather,        \* the GitHubAPI.batch_toggle_visibility call in progress, or the last
    crypt,         \* a secret taken through one cipher implementation and back
    users,         \* rows of table users
    bot,           \* GitHubVisibilityBot: its _running flag and where start() and stop() are
    pool           \* the connection pool and the Database operation using it

vault_vars == <<github_apis, cipher, conn, task, last, added>>

batch_vars == <<remote, remote_calls, batch, executed, reply, repositories, audit_logs>>

vars == <<github_apis, cipher, conn, task, last, added,
          remote, remote_calls, batch, executed, reply, repositories, audit_logs,
          gather, crypt, users, bot, pool>>

----------------------------------------------------------------------------
(* Input domains *)

Tenants == {"t1", "t2"}
Names == {"work", "home"}
\* names of one tenant's records in the concurrent specification
ConcNames == Names \cup {"lab"}
Tokens == {"ghp_1", "ghp_2"}
Usernames == {"octo1", "octo2"}
\* (token, principal) pairs handed to add_github_api
Credentials == {<<"ghp_1", "octo1">>, <<"ghp_2", "octo2">>}
\* values of the ENCRYPTION_KEY setting, as character sequences
EncryptionKeys == {<<"k", "1">>, <<"k", "2">>}
\* initialisation vectors Fernet may draw for one encryption
IVs == {"iv1", "iv2"}
\* the most rows table github_apis holds
MaxRows == 3

\* how many batch executions a behaviour may begin
MaxBatches == 1

\* the most entries the audit log holds in the specifications of the credential
\* commands and of the audit calls
MaxLogs == 3

\* the length of the longest list handed to batch_toggle_visibility
GatherLen == 5
\* connections of the pool
Connections == {"c1", "c2"}
\* where the persistence layer may raise during a call: at its SELECT, at its first
\* or second write, or at conn.commit()
Faults == {"none", "stmt1", "stmt2", "commit"}

----------------------------------------------------------------------------
(* Cipher *)

\* Fernet key length before base64
KEY_LEN == 32

RECURSIVE rstrip(_)
rstrip(bytes) ==
    IF bytes # <<>> /\ bytes[Len(bytes)] = " "
    THEN rstrip(SubSeq(bytes, 1, Len(bytes) - 1))
    ELSE bytes

\* bytes.ljust(32)[:32]. A string of KEY_LEN bytes is written without the spaces
\* it ends with: two such strings are equal exactly when these forms are equal.
ljust_truncate(key) ==
    rstrip(SubSeq(key, 1, IF Len(key) < KEY_LEN THEN Len(key) ELSE KEY_LEN))

urlsafe_b64encode(bytes) == <<"urlsafe_b64", bytes>>

b64encode(bytes) == <<"b64", bytes>>

\* b64decode inverts b64encode; anything else is not valid base64 of a Fernet token
b64decode(text) ==
    IF text[1] = "b64" THEN [ok |-> TRUE, val |-> text[2]]
    ELSE [ok |-> FALSE, val |-> "binascii.Error"]

\* Database._init_encryption
init_encryption(ENCRYPTION_KEY) ==
    [key |-> urlsafe_b64encode(ljust_truncate(ENCRYPTION_KEY))]

\* the HMAC a Fernet token carries over its IV and ciphertext
Fernet_hmac(key, iv, data) == <<"hmac", key, iv, data>>

\* Fernet.encrypt: an authenticated ciphertext bound to the key and a fresh IV
Fernet_encrypt(c, iv, plaintext) ==
    [key |-> c.key, iv |-> iv, data |-> plaintext,
     hmac |-> Fernet_hmac(c.key, iv, plaintext)]

\* a buggy Fernet_decrypt: the token is not authenticated
Fernet_decrypt_unauthenticated(c, token) == [ok |-> TRUE, val |-> token.data]

\* Fernet.decrypt: raises InvalidToken unless the token was made with this key and
\* its HMAC matches what it carries
Fernet_decrypt(c, token) ==
    IF token.key = c.key /\ token.hmac = Fernet_hmac(c.key, token.iv, token.data)
    THEN [ok |-> TRUE, val |-> token.data]
    ELSE [ok |-> FALSE, val |-> "InvalidToken"]

\* str.encode(): the UTF-8 bytes of a string
encode(text) == <<"utf-8", text>>

\* bytes.decode(): the string of UTF-8 bytes
decode(bytes) ==
    IF bytes[1] = "utf-8" THEN [ok |-> TRUE, val |-> bytes[2]]
    ELSE [ok |-> FALSE, val |-> "UnicodeDecodeError"]

\* Database._encrypt_token
encrypt_token(c, iv, token) == b64encode(Fernet_encrypt(c, iv, encode(token)))

\* Database._decrypt_token: the exception is logged and raised again
decrypt_token(c, encrypted_token) ==
    LET encrypted_bytes == b64decode(encrypted_token)
        decrypted == Fernet_decrypt(c, encrypted_bytes.val)
    IN  IF ~encrypted_bytes.ok THEN encrypted_bytes
        ELSE IF ~decrypted.ok THEN decrypted
        ELSE decode(decrypted.val)

\* a buggy get_cipher: the key is not brought to 32 bytes
get_cipher_unpadded(ENCRYPTION_KEY) == [key |-> urlsafe_b64encode(ENCRYPTION_KEY)]

\* encryption.get_cipher: a Fernet object made from Config.ENCRYPTION_KEY by each call
get_cipher(ENCRYPTION_KEY) ==
    [key |-> urlsafe_b64encode(ljust_truncate(ENCRYPTION_KEY))]

\* encryption.encrypt_token
encryption_encrypt_token(ENCRYPTION_KEY, iv, token) ==
    b64encode(Fernet_encrypt(get_cipher(ENCRYPTION_KEY), iv, encode(token)))

\* encryption.decrypt_token: exceptions are not caught
encryption_decrypt_token(ENCRYPTION_KEY, encrypted_token) ==
    LET encrypted_bytes == b64decode(encrypted_token)
        decrypted == Fernet_decrypt(get_cipher(ENCRYPTION_KEY), encrypted_bytes.val)
    IN  IF ~encrypted_bytes.ok THEN encrypted_bytes
        ELSE IF ~decrypted.ok THEN decrypted
        ELSE decode(decrypted.val)

----------------------------------------------------------------------------
(* Table github_apis and the SQL statements the vault issues *)

Row(user_id, api_name, github_token, github_username, is_active) ==
    [user_id |-> user_id, api_name |-> api_name, github_token |-> github_token,
     github_username |-> github_username, is_active |-> is_active]

Matches(r, user_id, api_name) == r.user_id = user_id /\ r.api_name = api_name

\* indices of the rows WHERE user_id = %s AND api_name = %s
RowsNamed(table, user_id, api_name) ==
    {i \in DOMAIN table : Matches(table[i], user_id, api_name)}

\* a buggy RowsOf: the WHERE clause is missing, every row is matched
RowsOf_every_tenant(table, user_id) == DOMAIN table

\* indices of the rows WHERE user_id = %s
RowsOf(table, user_id) == {i \in DOMAIN table : table[i].user_id = user_id}

\* indices of the rows WHERE user_id = %s AND is_active = TRUE
ActiveRows(table, user_id) ==
    {i \in DOMAIN table : table[i].user_id = user_id /\ table[i].is_active}

\* INSERT INTO github_apis (...) VALUES (..., is_active = False, created_at = now)
InsertStmt(user_id, api_name, github_token, github_username) ==
    [kind |-> "insert", user_id |-> user_id, api_name |-> api_name,
     github_token |-> github_token, github_username |-> github_username]

\* UPDATE github_apis SET github_token, github_username, created_at WHERE user_id AND api_name
UpdateTokenStmt(user_id, api_name, github_token, github_username) ==
    [kind |-> "update_token", user_id |-> user_id, api_name |-> api_name,
     github_token |-> github_token, github_username |-> github_username]

\* a buggy DeactivateAllStmt: its WHERE clause matches no row of the tenant
DeactivateAllStmt_no_rows(user_id) ==
    [kind |-> "deactivate_all", user_id |-> "nobody", api_name |-> "-",
     github_token |-> "-", github_username |-> "-"]

\* UPDATE github_apis SET is_active = False WHERE user_id
DeactivateAllStmt(user_id) ==
    [kind |-> "deactivate_all", user_id |-> user_id, api_name |-> "-",
     github_token |-> "-", github_username |-> "-"]

\* UPDATE github_apis SET is_active = True WHERE user_id AND api_name
ActivateStmt(user_id, api_name) ==
    [kind |-> "activate", user_id |-> user_id, api_name |-> api_name,
     github_token |-> "-", github_username |-> "-"]

\* DELETE FROM github_apis WHERE user_id AND api_name
DeleteStmt(user_id, api_name) ==
    [kind |-> "delete", user_id |-> user_id, api_name |-> api_name,
     github_token |-> "-", github_username |-> "-"]

\* the rows a statement writes (cursor.rowcount is their number)
Targets(table, stmt) ==
    CASE stmt.kind = "insert" -> {}
      [] stmt.kind = "deactivate_all" -> RowsOf(table, stmt.user_id)
      [] OTHER -> RowsNamed(table, stmt.user_id, stmt.api_name)

rowcount(table, stmt) ==
    IF stmt.kind = "insert" THEN 1 ELSE Cardinality(Targets(table, stmt))

\* the table after one statement
Execute(table, stmt) ==
    LET hit == Targets(table, stmt)
        kept == SelectSeq(table, LAMBDA r : ~Matches(r, stmt.user_id, stmt.api_name))
        moved == SelectSeq(table, LAMBDA r : Matches(r, stmt.user_id, stmt.api_name))
    IN  CASE stmt.kind = "insert" ->
               Append(table, Row(stmt.user_id, stmt.api_name, stmt.github_token,
                                 stmt.github_username, FALSE))
          [] stmt.kind = "update_token" ->
               kept \o [i \in DOMAIN moved |->
                          [moved[i] EXCEPT !.github_token = stmt.github_token,
                                           !.github_username = stmt.github_username]]
          [] stmt.kind = "deactivate_all" ->
               [i \in DOMAIN table |->
                  IF i \in hit THEN [table[i] EXCEPT !.is_active = FALSE] ELSE table[i]]
          [] stmt.kind = "activate" ->
               [i \in DOMAIN table |->
                  IF i \in hit THEN [table[i] EXCEPT !.is_active = TRUE] ELSE table[i]]
          [] stmt.kind = "delete" -> kept

RECURSIVE Replay(_, _)
\* the table after a sequence of statements
Replay(table, stmts) ==
    IF stmts = <<>> THEN table
    ELSE Replay(Execute(table, Head(stmts)), Tail(stmts))

\* what a connection's transaction sees: the committed rows and its own writes
View(cn) == Replay(github_apis, cn.pending)

\* cursor.execute on a connection: the statement joins the open transaction
execute(cn, stmt) == [cn EXCEPT !.pending = Append(@, stmt)]

\* conn.commit(): the committed table afterwards, and the connection outside a transaction
commit(cn) == [table |-> Replay(github_apis, cn.pending), cn |-> [cn EXCEPT !.pending = <<>>]]

\* a buggy put_connection: the connection goes back to the pool with its
\* transaction still open
put_connection_no_rollback(cn) == cn

\* Database._put_connection: ThreadedConnectionPool.putconn rolls back a connection
\* returned inside a transaction (or closes it), so uncommitted writes are dropped
put_connection(cn) == [cn EXCEPT !.pending = <<>>]

\* Database._get_connection: a connection of the pool that no running call holds
get_connection == CHOOSE c \in Connections : task[c].pc = "idle"

----------------------------------------------------------------------------
(* Credential vault: Database calls, each one unit of work on a pooled connection *)

None == [kind |-> "None"]
Bool(b) == [kind |-> "bool", val |-> b]
Dict(row) == [kind |-> "dict", row |-> row]
List(rows) == [kind |-> "list", rows |-> rows]

\* the record kept of a completed call
Call(op, user_id, api_name, github_token, github_username, note, ret) ==
    [op |-> op, user_id |-> user_id, api_name |-> api_name, github_token |-> github_token,
     github_username |-> github_username, note |-> note, ret |-> ret]

NoCredential == <<"-", "-">>

Idle == \A c \in Connections : task[c].pc = "idle"

\* a buggy add_statement: the existence check is skipped and a row always inserted
add_statement_always_insert(existing, user_id, api_name, encrypted_token, github_username) ==
    InsertStmt(user_id, api_name, encrypted_token, github_username)

\* the write add_github_api issues after its SELECT id ... returned the rows `existing`
add_statement(existing, user_id, api_name, encrypted_token, github_username) ==
    IF existing # {}
    THEN UpdateTokenStmt(user_id, api_name, encrypted_token, github_username)
    ELSE InsertStmt(user_id, api_name, encrypted_token, github_username)

\* Database.add_github_api; note is the branch its log line names. Its statements
\* are the SELECT (stmt1) and the UPDATE or INSERT (stmt2).
add_github_api(user_id, api_name, github_token, github_username, iv, fault) ==
    LET encrypted_token == encrypt_token(cipher, iv, github_token)
        c == get_connection
        cn0 == conn[c]
        existing == RowsNamed(View(cn0), user_id, api_name)
        stmt == add_statement(existing, user_id, api_name, encrypted_token, github_username)
        cn1 == execute(cn0, stmt)
        ok == fault = "none"
        at_put == CASE fault = "stmt1" -> cn0
                    [] ok -> commit(cn1).cn
                    [] OTHER -> cn1
    IN  /\ Idle
        /\ existing # {} \/ Len(View(cn0)) < MaxRows
        /\ github_apis' = IF ok THEN commit(cn1).table ELSE github_apis
        /\ conn' = [conn EXCEPT ![c] = put_connection(at_put)]
        /\ added' = IF ok THEN [added EXCEPT ![<<user_id, api_name>>] =
                                   <<github_token, github_username>>]
                    ELSE added
        /\ last' = Call("add_github_api", user_id, api_name, github_token, github_username,
                        IF ~ok THEN "error" ELSE IF existing # {} THEN "updated" ELSE "added",
                        Bool(ok))
        /\ UNCHANGED <<cipher, task>>

\* a buggy user_apis: the rows come oldest first
user_apis_oldest_first(table, user_id) ==
    SelectSeq(table, LAMBDA r : r.user_id = user_id)

\* what Database.get_user_apis returns: the tenant's rows ORDER BY created_at DESC
user_apis(table, user_id) ==
    LET mine == SelectSeq(table, LAMBDA r : r.user_id = user_id)
    IN  [i \in DOMAIN mine |-> mine[Len(mine) + 1 - i]]

\* Database.get_user_apis
get_user_apis(user_id, fault) ==
    LET c == get_connection
    IN  /\ Idle
        /\ conn' = [conn EXCEPT ![c] = put_connection(conn[c])]
        /\ last' = Call("get_user_apis", user_id, "-", "-", "-",
                        IF fault = "none" THEN "-" ELSE "error",
                        IF fault = "none" THEN List(user_apis(View(conn[c]), user_id))
                        ELSE List(<<>>))
        /\ UNCHANGED <<github_apis, cipher, task, added>>

\* a buggy active_api_result: the stored token is handed out without decryption
active_api_result_undecrypted(c, api_data) == api_data

\* what Database.get_active_api returns when fetchone yields row api_data (or no row):
\* the row with its token decrypted; an exception of the decryption is caught and
\* None returned
active_api_result(c, api_data) ==
    IF api_data = None THEN None
    ELSE LET token == decrypt_token(c, api_data.row.github_token)
         IN  IF token.ok THEN Dict([api_data.row EXCEPT !.github_token = token.val])
             ELSE None

\* what fetchone may yield for SELECT * WHERE user_id AND is_active
fetch_active(table, user_id) ==
    IF ActiveRows(table, user_id) = {} THEN {None}
    ELSE {Dict(table[i]) : i \in ActiveRows(table, user_id)}

\* Database.get_active_api
get_active_api(user_id, fault) ==
    LET c == get_connection
    IN  /\ Idle
        /\ conn' = [conn EXCEPT ![c] = put_connection(conn[c])]
        /\ \E api_data \in fetch_active(View(conn[c]), user_id) :
              last' = Call("get_active_api", user_id, "-", "-", "-",
                           IF fault = "none" THEN "-" ELSE "error",
                           IF fault = "none" THEN active_api_result(cipher, api_data)
                           ELSE None)
        /\ UNCHANGED <<github_apis, cipher, task, added>>

\* Database.set_active_api: two UPDATEs in one transaction, committed only when the
\* second one hit a row; otherwise the connection goes back to the pool uncommitted
set_active_api(user_id, api_name, fault) ==
    LET c == get_connection
        cn0 == conn[c]
        cn1 == execute(cn0, DeactivateAllStmt(user_id))
        found == rowcount(View(cn1), ActivateStmt(user_id, api_name)) > 0
        cn2 == execute(cn1, ActivateStmt(user_id, api_name))
        ok == fault = "none" /\ found
        at_put == CASE fault = "stmt1" -> cn0
                    [] fault = "stmt2" -> cn1
                    [] ok -> commit(cn2).cn
                    [] OTHER -> cn2
    IN  /\ Idle
        /\ github_apis' = IF ok THEN commit(cn2).table ELSE github_apis
        /\ conn' = [conn EXCEPT ![c] = put_connection(at_put)]
        /\ last' = Call("set_active_api", user_id, api_name, "-", "-",
                        IF fault # "none" THEN "error" ELSE IF found THEN "set" ELSE "not found",
                        Bool(ok))
        /\ UNCHANGED <<cipher, task, added>>

\* a buggy remove_github_api: the DELETE is never committed
remove_github_api_uncommitted(user_id, api_name, fault) ==
    LET c == get_connection
        cn1 == execute(conn[c], DeleteStmt(user_id, api_name))
    IN  /\ Idle
        /\ conn' = [conn EXCEPT ![c] = put_connection(cn1)]
        /\ added' = IF fault = "none"
                    THEN [added EXCEPT ![<<user_id, api_name>>] = NoCredential]
                    ELSE added
        /\ last' = Call("remove_github_api", user_id, api_name, "-", "-",
                        IF fault = "none" THEN "-" ELSE "error", Bool(fault = "none"))
        /\ UNCHANGED <<github_apis, cipher, task>>

\* Database.remove_github_api
remove_github_api(user_id, api_name, fault) ==
    LET c == get_connection
        cn0 == conn[c]
        cn1 == execute(cn0, DeleteStmt(user_id, api_name))
        ok == fault = "none"
        at_put == CASE fault = "stmt1" -> cn0
                    [] ok -> commit(cn1).cn
                    [] OTHER -> cn1
    IN  /\ Idle
        /\ github_apis' = IF ok THEN commit(cn1).table ELSE github_apis
        /\ conn' = [conn EXCEPT ![c] = put_connection(at_put)]
        /\ added' = IF ok THEN [added EXCEPT ![<<user_id, api_name>>] = NoCredential]
                    ELSE added
        /\ last' = Call("remove_github_api", user_id, api_name, "-", "-",
                        IF ok THEN "-" ELSE "error", Bool(ok))
        /\ UNCHANGED <<cipher, task>>

\* Database.__init__ of a new process: the pool is created anew and the cipher is
\* derived from the configured ENCRYPTION_KEY; the stored rows stay as they are
Database_init(ENCRYPTION_KEY) ==
    /\ Idle
    /\ cipher' = init_encryption(ENCRYPTION_KEY)
    /\ conn' = [c \in Connections |-> [pending |-> <<>>]]
    /\ last' = Call("__init__", "-", "-", "-", "-", "-", None)
    /\ UNCHANGED <<github_apis, task, added>>

----------------------------------------------------------------------------
(* set_active_api run by concurrent callers, each as its own transaction on its own
   pooled connection. The database runs the transactions READ COMMITTED: an UPDATE
   locks the rows it writes until its transaction ends, and an UPDATE that meets a
   row locked by another transaction waits for that transaction to end and then
   works on the committed rows. A call's steps are its statements. task[c] keeps,
   for the call on connection c, its arguments, whether its second UPDATE hit a row,
   whether another call ran while it did, and whether it has returned. *)

RECURSIVE LockedRows(_, _)
\* the rows locked by the statements of an open transaction
LockedRows(table, stmts) ==
    IF stmts = <<>> THEN {}
    ELSE Targets(table, Head(stmts))
            \cup LockedRows(Execute(table, Head(stmts)), Tail(stmts))

\* the statement has to wait: a row it writes is locked by another transaction
Blocked(c, stmt) ==
    \E o \in Connections \ {c} :
        Targets(View(conn[c]), stmt) \cap LockedRows(github_apis, conn[o].pending) # {}

\* set_active_api is called and borrows connection c
sa_begin(c, user_id, api_name) ==
    LET running == {o \in Connections : task[o].pc # "idle"}
    IN  /\ task[c].pc = "idle"
        /\ task' = [o \in Connections |->
                      IF o = c
                      THEN [pc |-> "deactivate", user_id |-> user_id, api_name |-> api_name,
                            found |-> FALSE, overlapped |-> running # {}, done |-> FALSE]
                      ELSE IF o \in running THEN [task[o] EXCEPT !.overlapped = TRUE]
                      ELSE task[o]]
        /\ UNCHANGED <<github_apis, cipher, conn, last, added>>

\* a buggy sa_deactivate: the connection is in autocommit mode, so the first UPDATE
\* is committed, and its locks released, before the second one runs
sa_deactivate_autocommit(c) ==
    LET stmt == DeactivateAllStmt(task[c].user_id)
        cn1 == execute(conn[c], stmt)
    IN  /\ task[c].pc = "deactivate"
        /\ ~Blocked(c, stmt)
        /\ github_apis' = commit(cn1).table
        /\ conn' = [conn EXCEPT ![c] = commit(cn1).cn]
        /\ task' = [task EXCEPT ![c].pc = "activate"]
        /\ UNCHANGED <<cipher, last, added>>

\* UPDATE github_apis SET is_active = False WHERE user_id
sa_deactivate(c) ==
    LET stmt == DeactivateAllStmt(task[c].user_id)
    IN  /\ task[c].pc = "deactivate"
        /\ ~Blocked(c, stmt)
        /\ conn' = [conn EXCEPT ![c] = execute(conn[c], stmt)]
        /\ task' = [task EXCEPT ![c].pc = "activate"]
        /\ UNCHANGED <<github_apis, cipher, last, added>>

\* UPDATE github_apis SET is_active = True WHERE user_id AND api_name, and the test
\* of cursor.rowcount
sa_activate(c) ==
    LET stmt == ActivateStmt(task[c].user_id, task[c].api_name)
        found == rowcount(View(conn[c]), stmt) > 0
    IN  /\ task[c].pc = "activate"
        /\ ~Blocked(c, stmt)
        /\ conn' = [conn EXCEPT ![c] = execute(conn[c], stmt)]
        /\ task' = [task EXCEPT ![c].pc = IF found THEN "commit" ELSE "put",
                                ![c].found = found]
        /\ UNCHANGED <<github_apis, cipher, last, added>>

\* conn.commit()
sa_commit(c) ==
    /\ task[c].pc = "commit"
    /\ github_apis' = commit(conn[c]).table
    /\ conn' = [conn EXCEPT ![c] = commit(conn[c]).cn]
    /\ task' = [task EXCEPT ![c].pc = "put"]
    /\ UNCHANGED <<cipher, last, added>>

\* finally: self._put_connection(conn), and the return of True or False
sa_return(c) ==
    /\ task[c].pc = "put"
    /\ conn' = [conn EXCEPT ![c] = put_connection(conn[c])]
    /\ task' = [task EXCEPT ![c].pc = "idle", ![c].done = TRUE]
    /\ last' = Call("set_active_api", task[c].user_id, task[c].api_name, "-", "-",
                    IF task[c].found THEN "set" ELSE "not found", Bool(task[c].found))
    /\ UNCHANGED <<github_apis, cipher, added>>

----------------------------------------------------------------------------
(* Remote service and repository lists *)

\* the most repositories one batch may name (handlers.py: len(repo_list) > 10)
MAX_BATCH == 10

\* (owner, repo) pairs known to the model; "octo1" is the principal of ghp_1
Pairs == {<<"octo1", "x">>, <<"a", "y">>, <<"a", "z">>, <<"a", "w">>, <<"a", "e">>,
          <<"a", "u">>}

\* the repositories a long list names
LongNames == <<"r01", "r02", "r03", "r04", "r05", "r06", "r07", "r08", "r09", "r10", "r11">>

\* the remote repositories when the bot starts: a/y is private, a/z does not exist
\* (404), a/w is public but the token may not change it (403), requests for a/e
\* are answered with a server error (500), requests for a/u fail in transport
\* (the HTTP client raises), the rest are public
RemoteAtStart ==
    [p \in Pairs \cup {<<"a", LongNames[i]>> : i \in DOMAIN LongNames} |->
        CASE p = <<"a", "y">> -> "private"
          [] p = <<"a", "z">> -> "absent"
          [] p = <<"a", "w">> -> "locked"
          [] p = <<"a", "e">> -> "error"
          [] p = <<"a", "u">> -> "unreachable"
          [] OTHER -> "public"]

\* the state of a repository at the remote service; a name it does not know is absent
remote_state(owner, repo_name) ==
    IF <<owner, repo_name>> \in DOMAIN remote THEN remote[<<owner, repo_name>>]
    ELSE "absent"

\* GET /repos/{owner}/{repo}: the response status and body, or the exception the
\* HTTP client raises (status 0)
http_get_repo(owner, repo_name) ==
    CASE remote_state(owner, repo_name) = "unreachable" ->
            [status |-> 0, raised |-> TRUE, private |-> FALSE]
      [] remote_state(owner, repo_name) = "error" ->
            [status |-> 500, raised |-> FALSE, private |-> FALSE]
      [] remote_state(owner, repo_name) = "absent" ->
            [status |-> 404, raised |-> FALSE, private |-> FALSE]
      [] OTHER ->
            [status |-> 200, raised |-> FALSE,
             private |-> remote_state(owner, repo_name) = "private"]

\* PATCH /repos/{owner}/{repo} {'private': make_private}: the response status and
\* message, or the exception the HTTP client raises (status 0)
http_patch_repo(owner, repo_name) ==
    CASE remote_state(owner, repo_name) = "unreachable" ->
            [status |-> 0, raised |-> TRUE, message |-> "Cannot connect to host"]
      [] remote_state(owner, repo_name) = "error" ->
            [status |-> 500, raised |-> FALSE, message |-> "Server Error"]
      [] remote_state(owner, repo_name) = "absent" ->
            [status |-> 404, raised |-> FALSE, message |-> "Not Found"]
      [] remote_state(owner, repo_name) = "locked" ->
            [status |-> 403, raised |-> FALSE,
             message |-> "Must have admin rights to Repository."]
      [] OTHER ->
            [status |-> 200, raised |-> FALSE, message |-> "OK"]

\* the remote repositories after the PATCH
remote_after_patch(owner, repo_name, make_private) ==
    IF http_patch_repo(owner, repo_name).status = 200
    THEN [remote EXCEPT ![<<owner, repo_name>>] =
             IF make_private THEN "private" ELSE "public"]
    ELSE remote

\* a buggy get_repository: a repository is reported for every response
get_repository_always_found(owner, repo_name) ==
    [kind |-> "dict", private |-> http_get_repo(owner, repo_name).private]

\* GitHubAPI.get_repository: the repository's fields for status 200; None for 404,
\* None for every other status, and None when the request raised
get_repository(owner, repo_name) ==
    LET response == http_get_repo(owner, repo_name)
    IN  CASE response.raised -> None
          [] response.status = 200 -> [kind |-> "dict", private |-> response.private]
          [] response.status = 404 -> None
          [] OTHER -> None

\* a buggy toggle_repository_visibility: success is reported for every response
toggle_repository_visibility_reports_success(owner, repo_name, make_private) ==
    <<TRUE, <<"Repository is now", repo_name,
              IF make_private THEN "private" ELSE "public">>>>

\* GitHubAPI.toggle_repository_visibility: (success, message)
toggle_repository_visibility(owner, repo_name, make_private) ==
    LET response == http_patch_repo(owner, repo_name)
        visibility == IF make_private THEN "private" ELSE "public"
    IN  CASE response.raised -> <<FALSE, <<response.message>>>>
          [] response.status = 200 ->
                <<TRUE, <<"Repository is now", repo_name, visibility>>>>
          [] OTHER -> <<FALSE, <<response.message>>>>

\* the record of one remote call: the request, the status of the response (0 when
\* the request raised) and whether the method reported a repository / a success
RemoteCall(op, token, owner, repo_name, make_private, status, ok) ==
    [op |-> op, token |-> token, owner |-> owner, repo_name |-> repo_name,
     make_private |-> make_private, status |-> status, ok |-> ok]

\* One item of a comma-separated repository string: "owner/repo" is an item with
\* both fields, "repo" has owner "", and an item of blanks has repo "".
Item(owner, repo) == [owner |-> owner, repo |-> repo]

\* utils.parse_repository_list: blank items are dropped, an item without '/' gets
\* the default owner; nothing else is dropped or merged
parse_repository_list(repos_str, default_owner) ==
    LET repos == SelectSeq(repos_str, LAMBDA item : item.repo # "")
    IN  [i \in DOMAIN repos |->
            IF repos[i].owner # "" THEN <<repos[i].owner, repos[i].repo>>
            ELSE <<default_owner, repos[i].repo>>]

\* f"{owner}/{repo_name}"
full_name(owner, repo_name) == <<owner, "/", repo_name>>

\* repo_full_name.split('/', 1)
split_full_name(repo_full_name) == <<repo_full_name[1], repo_full_name[3]>>

\* A dict in insertion order: a sequence of <<key, value>> with distinct keys.
\* d[key] = value replaces the value of a key in place and appends a new key.
dict_set(d, key, value) ==
    IF \E i \in DOMAIN d : d[i][1] = key
    THEN [i \in DOMAIN d |-> IF d[i][1] = key THEN <<key, value>> ELSE d[i]]
    ELSE Append(d, <<key, value>>)

----------------------------------------------------------------------------
(* Batch visibility changes: the /batch_toggle command, its confirmation button,
   and _execute_batch_toggle. One action per stretch of code between awaits of a
   remote call; one batch runs at a time. *)

\* Config.ADMIN_USER_IDS
ADMIN_USER_IDS == {"t1"}

\* Config.is_admin
is_admin(user_id) == user_id \in ADMIN_USER_IDS

\* what a call of Database.get_active_api may return now
active_api_now(user_id) ==
    {active_api_result(cipher, api_data) :
        api_data \in fetch_active(View(conn[get_connection]), user_id)}

\* callback_data=f"batch_confirm:{visibility_action}:{repos_str}"
batch_confirm(visibility_action, repos_str) ==
    [kind |-> "batch_confirm", visibility_action |-> visibility_action,
     repos_str |-> repos_str]

\* BotHandlers.batch_toggle_command: the arguments are an optional first word
\* "private" or "public" (keyword, "" when absent) and the repository items.
\* The confirmation lists the parsed pairs (shown) and its button carries the
\* repository string as it was typed.
\* The chat is served one update at a time: no command while a batch runs.
batch_toggle_command(user_id, keyword, repos_str) ==
    /\ Idle
    /\ batch.pc \in {"idle", "done"}
    /\ \E active_api \in active_api_now(user_id) :
          LET visibility_action == IF keyword \in {"private", "public"} THEN keyword
                                   ELSE "toggle"
              repo_list == IF active_api = None THEN <<>>
                           ELSE parse_repository_list(repos_str,
                                                      active_api.row.github_username)
              text == CASE ~is_admin(user_id) -> "Access Denied"
                        [] active_api = None -> "No Active API"
                        [] keyword = "" /\ repos_str = <<>> -> "Invalid Usage"
                        [] keyword # "" /\ repos_str = <<>> -> "Missing Repository List"
                        [] repo_list = <<>> -> "Invalid Repository List"
                        [] Len(repo_list) > MAX_BATCH -> "Too Many Repositories"
                        [] OTHER -> "Batch Toggle Confirmation"
          IN  /\ reply' = [to |-> "batch_toggle_command", text |-> text,
                           count |-> IF is_admin(user_id) THEN Len(repo_list) ELSE 0,
                           buttons |-> IF text = "Batch Toggle Confirmation"
                                       THEN {batch_confirm(visibility_action, repos_str)}
                                       ELSE {},
                           shown |-> IF text = "Batch Toggle Confirmation"
                                     THEN repo_list ELSE <<>>]
              /\ last' = IF is_admin(user_id)
                         THEN Call("get_active_api", user_id, "-", "-", "-", "-", active_api)
                         ELSE last
    /\ UNCHANGED <<github_apis, cipher, conn, task, added>>
    /\ UNCHANGED <<remote, remote_calls, batch, executed, repositories, audit_logs>>

\* BotHandlers.button_callback with data "batch_confirm:...", and the part of
\* _execute_batch_toggle it runs before the first remote call. The data is whatever
\* the callback query carries; `offered` records whether it is that of the button
\* the last confirmation showed.
button_callback(user_id, data) ==
    /\ Idle
    /\ data.kind = "batch_confirm"
    /\ batch.pc \in {"idle", "done"}
    /\ executed < MaxBatches
    /\ \E active_api \in active_api_now(user_id) :
          /\ last' = Call("get_active_api", user_id, "-", "-", "-", "-", active_api)
          /\ IF active_api = None
             THEN /\ reply' = [to |-> "button_callback", text |-> "No Active API",
                               count |-> 0, buttons |-> {}, shown |-> <<>>]
                  /\ UNCHANGED <<batch, remote_calls, executed>>
             ELSE LET repo_list == parse_repository_list(data.repos_str,
                                                         active_api.row.github_username)
                  IN  /\ batch' = [pc |-> IF repo_list = <<>> THEN "persist"
                                          ELSE IF data.visibility_action = "toggle"
                                          THEN "get" ELSE "toggle",
                                   user_id |-> user_id,
                                   visibility_action |-> data.visibility_action,
                                   repo_list |-> repo_list,
                                   i |-> 1,
                                   repo_info |-> None,
                                   make_private |-> data.visibility_action = "private",
                                   token |-> active_api.row.github_token,
                                   results |-> <<>>,
                                   offered |-> data \in reply.buttons]
                      /\ remote_calls' = <<>>
                      /\ executed' = executed + 1
                      /\ reply' = [to |-> "button_callback",
                                   text |-> "Processing Batch Operation...",
                                   count |-> Len(repo_list), buttons |-> {},
                                   shown |-> <<>>]
    /\ UNCHANGED <<github_apis, cipher, conn, task, added>>
    /\ UNCHANGED <<remote, repositories, audit_logs>>

\* a buggy batch_get_repository: the target is the current visibility, not its
\* negation
batch_get_repository_keeps_visibility ==
    /\ batch.pc = "get"
    /\ LET owner == batch.repo_list[batch.i][1]
           repo_name == batch.repo_list[batch.i][2]
           repo_info == get_repository(owner, repo_name)
       IN  /\ remote_calls' = Append(remote_calls,
                 RemoteCall("get_repository", batch.token, owner, repo_name, FALSE,
                            http_get_repo(owner, repo_name).status, repo_info # None))
           /\ batch' = IF repo_info # None
                       THEN [batch EXCEPT !.pc = "toggle",
                                          !.repo_info = repo_info,
                                          !.make_private = repo_info.private]
                       ELSE [batch EXCEPT !.pc = "sleep",
                                !.repo_info = repo_info,
                                !.results = dict_set(@, full_name(owner, repo_name),
                                    <<FALSE, <<"Repository not found">>, "unknown">>)]
    /\ UNCHANGED vault_vars
    /\ UNCHANGED <<remote, executed, reply, repositories, audit_logs>>

\* toggle mode: github_api.get_repository for entry i of the list, and the code up
\* to the next await
batch_get_repository ==
    /\ batch.pc = "get"
    /\ LET owner == batch.repo_list[batch.i][1]
           repo_name == batch.repo_list[batch.i][2]
           repo_info == get_repository(owner, repo_name)
       IN  /\ remote_calls' = Append(remote_calls,
                 RemoteCall("get_repository", batch.token, owner, repo_name, FALSE,
                            http_get_repo(owner, repo_name).status, repo_info # None))
           /\ batch' = IF repo_info # None
                       THEN [batch EXCEPT !.pc = "toggle",
                                          !.repo_info = repo_info,
                                          !.make_private = ~repo_info.private]
                       ELSE [batch EXCEPT !.pc = "sleep",
                                !.repo_info = repo_info,
                                !.results = dict_set(@, full_name(owner, repo_name),
                                    <<FALSE, <<"Repository not found">>, "unknown">>)]
    /\ UNCHANGED vault_vars
    /\ UNCHANGED <<remote, executed, reply, repositories, audit_logs>>

\* a buggy batch_toggle_repository: the request is sent with the token of the
\* credential that is active when the request is made
batch_toggle_repository_current_credential ==
    /\ batch.pc = "toggle"
    /\ \E active_api \in active_api_now(batch.user_id) :
          LET owner == batch.repo_list[batch.i][1]
              repo_name == batch.repo_list[batch.i][2]
              outcome == toggle_repository_visibility(owner, repo_name, batch.make_private)
              new_visibility == IF batch.visibility_action = "toggle"
                                THEN IF batch.make_private THEN "private" ELSE "public"
                                ELSE batch.visibility_action
          IN  /\ remote' = remote_after_patch(owner, repo_name, batch.make_private)
              /\ remote_calls' = Append(remote_calls,
                    RemoteCall("toggle_repository_visibility",
                               IF active_api = None THEN "-"
                               ELSE active_api.row.github_token,
                               owner, repo_name, batch.make_private,
                               http_patch_repo(owner, repo_name).status, outcome[1]))
              /\ batch' = [batch EXCEPT !.pc = "sleep",
                              !.results = dict_set(@, full_name(owner, repo_name),
                                              <<outcome[1], outcome[2], new_visibility>>)]
    /\ UNCHANGED vault_vars
    /\ UNCHANGED <<executed, reply, repositories, audit_logs>>

\* a buggy batch_toggle_repository: in private / public mode the target is taken
\* from the position in the list, not from the mode
batch_toggle_repository_by_position ==
    /\ batch.pc = "toggle"
    /\ LET make_private == IF batch.visibility_action = "toggle" THEN batch.make_private
                           ELSE batch.i % 2 = 1
           owner == batch.repo_list[batch.i][1]
           repo_name == batch.repo_list[batch.i][2]
           outcome == toggle_repository_visibility(owner, repo_name, make_private)
           new_visibility == IF batch.visibility_action = "toggle"
                             THEN IF batch.make_private THEN "private" ELSE "public"
                             ELSE batch.visibility_action
       IN  /\ remote' = remote_after_patch(owner, repo_name, make_private)
           /\ remote_calls' = Append(remote_calls,
                 RemoteCall("toggle_repository_visibility", batch.token, owner, repo_name,
                            make_private, http_patch_repo(owner, repo_name).status,
                            outcome[1]))
           /\ batch' = [batch EXCEPT !.pc = "sleep",
                           !.results = dict_set(@, full_name(owner, repo_name),
                                           <<outcome[1], outcome[2], new_visibility>>)]
    /\ UNCHANGED vault_vars
    /\ UNCHANGED <<executed, reply, repositories, audit_logs>>

\* github_api.toggle_repository_visibility for entry i of the list and the
\* assignment of its outcome to results["owner/repo"]
batch_toggle_repository ==
    /\ batch.pc = "toggle"
    /\ LET owner == batch.repo_list[batch.i][1]
           repo_name == batch.repo_list[batch.i][2]
           outcome == toggle_repository_visibility(owner, repo_name, batch.make_private)
           new_visibility == IF batch.visibility_action = "toggle"
                             THEN IF batch.make_private THEN "private" ELSE "public"
                             ELSE batch.visibility_action
       IN  /\ remote' = remote_after_patch(owner, repo_name, batch.make_private)
           /\ remote_calls' = Append(remote_calls,
                 RemoteCall("toggle_repository_visibility", batch.token, owner, repo_name,
                            batch.make_private, http_patch_repo(owner, repo_name).status,
                            outcome[1]))
           /\ batch' = [batch EXCEPT !.pc = "sleep",
                           !.results = dict_set(@, full_name(owner, repo_name),
                                           <<outcome[1], outcome[2], new_visibility>>)]
    /\ UNCHANGED vault_vars
    /\ UNCHANGED <<executed, reply, repositories, audit_logs>>

\* a buggy batch_sleep: the loop is left after the first failed result
batch_sleep_abort_on_failure ==
    /\ batch.pc = "sleep"
    /\ batch' = [batch EXCEPT
                    !.i = @ + 1,
                    !.pc = IF batch.i + 1 > Len(batch.repo_list)
                              \/ \E k \in DOMAIN batch.results : ~batch.results[k][2][1]
                           THEN "persist"
                           ELSE IF batch.visibility_action = "toggle" THEN "get"
                           ELSE "toggle"]
    /\ UNCHANGED vault_vars
    /\ UNCHANGED <<remote, remote_calls, executed, reply, repositories, audit_logs>>

\* asyncio.sleep(0.2) and the step of the for loop to the next entry
batch_sleep ==
    /\ batch.pc = "sleep"
    /\ batch' = [batch EXCEPT
                    !.i = @ + 1,
                    !.pc = IF batch.i + 1 > Len(batch.repo_list) THEN "persist"
                           ELSE IF batch.visibility_action = "toggle" THEN "get"
                           ELSE "toggle"]
    /\ UNCHANGED vault_vars
    /\ UNCHANGED <<remote, remote_calls, executed, reply, repositories, audit_logs>>

\* a buggy update_repository_status: a plain INSERT, whatever the table holds
update_repository_status_insert_only(table, user_id, repo_name, owner, visibility) ==
    Append(table, [user_id |-> user_id, repo_name |-> repo_name, owner |-> owner,
                   current_visibility |-> visibility])

\* Database.update_repository_status: INSERT ... ON CONFLICT (user_id, repo_name,
\* owner) DO UPDATE SET current_visibility
update_repository_status(table, user_id, repo_name, owner, visibility) ==
    LET row == [user_id |-> user_id, repo_name |-> repo_name, owner |-> owner,
                current_visibility |-> visibility]
        same(r) == r.user_id = user_id /\ r.repo_name = repo_name /\ r.owner = owner
    IN  IF \E i \in DOMAIN table : same(table[i])
        THEN [i \in DOMAIN table |-> IF same(table[i]) THEN row ELSE table[i]]
        ELSE Append(table, row)

\* a buggy log_action: every entry is written with status "success"
log_action_always_success(table, user_id, action, repository, status) ==
    Append(table, [user_id |-> user_id, action |-> action, repository |-> repository,
                   status |-> "success"])

\* Database.log_action: INSERT INTO audit_logs
log_action(table, user_id, action, repository, status) ==
    Append(table, [user_id |-> user_id, action |-> action, repository |-> repository,
                   status |-> status])

\* the loop over results.items() after the remote calls: the cache rows it leaves
RECURSIVE persist_repositories(_, _, _)
persist_repositories(table, user_id, results) ==
    IF results = <<>> THEN table
    ELSE LET repo_full_name == Head(results)[1]
             success == Head(results)[2][1]
             new_visibility == Head(results)[2][3]
             owner == split_full_name(repo_full_name)[1]
             repo_name == split_full_name(repo_full_name)[2]
         IN  persist_repositories(
                 IF success
                 THEN update_repository_status(table, user_id, repo_name, owner,
                                               new_visibility)
                 ELSE table,
                 user_id, Tail(results))

\* the loop over results.items() after the remote calls: the audit rows it leaves
RECURSIVE persist_audit_logs(_, _, _, _)
persist_audit_logs(table, user_id, visibility_action, results) ==
    IF results = <<>> THEN table
    ELSE persist_audit_logs(
             log_action(table, user_id, <<"batch_", visibility_action>>, Head(results)[1],
                        IF Head(results)[2][1] THEN "success" ELSE "failed"),
             user_id, visibility_action, Tail(results))

\* the end of _execute_batch_toggle: cache and audit log are written from the
\* results and the summary is sent
batch_persist ==
    /\ batch.pc = "persist"
    /\ repositories' = persist_repositories(repositories, batch.user_id, batch.results)
    /\ audit_logs' = persist_audit_logs(audit_logs, batch.user_id,
                                        batch.visibility_action, batch.results)
    /\ reply' = [to |-> "button_callback", text |-> "Batch Operation Results",
                 count |-> Len(batch.results), buttons |-> {}, shown |-> <<>>]
    /\ batch' = [batch EXCEPT !.pc = "done"]
    /\ UNCHANGED vault_vars
    /\ UNCHANGED <<remote, remote_calls, executed>>

----------------------------------------------------------------------------
(* Table users: the Database calls of user management *)

\* usernames a chat hands in
UserNames == {"alice", "bob"}

UserRow(user_id, username, is_authorized) ==
    [user_id |-> user_id, username |-> username, is_authorized |-> is_authorized]

\* cursor.fetchone() after SELECT * FROM users WHERE user_id = %s
fetch_user(table, user_id) ==
    LET found == SelectSeq(table, LAMBDA r : r.user_id = user_id)
    IN  IF found = <<>> THEN None ELSE Dict(found[1])

\* UPDATE users SET is_authorized = %s WHERE user_id = %s
set_authorized(table, user_id, is_authorized) ==
    [i \in DOMAIN table |->
        IF table[i].user_id = user_id
        THEN [table[i] EXCEPT !.is_authorized = is_authorized]
        ELSE table[i]]

\* Database.get_user
get_user(user_id) ==
    /\ Idle
    /\ conn' = [conn EXCEPT ![get_connection] = put_connection(@)]
    /\ last' = Call("get_user", user_id, "-", "-", "-", "-", fetch_user(users, user_id))
    /\ UNCHANGED <<github_apis, cipher, task, added, users>>

\* a buggy create_user: the row of a user who exists is written anew
create_user_resets(user_id, username) ==
    /\ Idle
    /\ conn' = [conn EXCEPT ![get_connection] = put_connection(@)]
    /\ users' = Append(SelectSeq(users, LAMBDA r : r.user_id # user_id),
                       UserRow(user_id, username, FALSE))
    /\ last' = Call("create_user", user_id, "-", "-", "-", <<"created", username>>,
                    Bool(TRUE))
    /\ UNCHANGED <<github_apis, cipher, task, added>>

\* Database.create_user: get_user first; the INSERT only when it found no row
create_user(user_id, username) ==
    LET existing == fetch_user(users, user_id)
    IN  /\ Idle
        /\ conn' = [conn EXCEPT ![get_connection] = put_connection(@)]
        /\ users' = IF existing # None THEN users
                    ELSE Append(users, UserRow(user_id, username, FALSE))
        /\ last' = Call("create_user", user_id, "-", "-", "-",
                        <<IF existing # None THEN "exists" ELSE "created", username>>,
                        Bool(TRUE))
        /\ UNCHANGED <<github_apis, cipher, task, added>>

\* Database.authorize_user
authorize_user(user_id) ==
    /\ Idle
    /\ conn' = [conn EXCEPT ![get_connection] = put_connection(@)]
    /\ users' = set_authorized(users, user_id, TRUE)
    /\ last' = Call("authorize_user", user_id, "-", "-", "-", "-", Bool(TRUE))
    /\ UNCHANGED <<github_apis, cipher, task, added>>

\* Database.revoke_user
revoke_user(user_id) ==
    /\ Idle
    /\ conn' = [conn EXCEPT ![get_connection] = put_connection(@)]
    /\ users' = set_authorized(users, user_id, FALSE)
    /\ last' = Call("revoke_user", user_id, "-", "-", "-", "-", Bool(TRUE))
    /\ UNCHANGED <<github_apis, cipher, task, added>>

----------------------------------------------------------------------------
(* Table audit_logs: the Database calls that write and read it *)

\* Database.log_action as a call of its own; the INSERT or the commit may fail
db_log_action(user_id, action, repository, status, fault) ==
    /\ Idle
    /\ Len(audit_logs) < MaxLogs
    /\ conn' = [conn EXCEPT ![get_connection] = put_connection(@)]
    /\ audit_logs' = IF fault = "none"
                     THEN log_action(audit_logs, user_id, action, repository, status)
                     ELSE audit_logs
    /\ last' = Call("log_action", user_id, "-", "-", "-", <<action, repository, status>>,
                    Bool(fault = "none"))
    /\ UNCHANGED <<github_apis, cipher, task, added>>
    /\ UNCHANGED <<remote, remote_calls, batch, executed, reply, repositories>>

\* a buggy user_logs: the rows come oldest first
user_logs_oldest_first(table, user_id, limit) ==
    LET mine == SelectSeq(table, LAMBDA r : r.user_id = user_id)
    IN  SubSeq(mine, 1, IF limit < Len(mine) THEN limit ELSE Len(mine))

\* SELECT * FROM audit_logs WHERE user_id = %s ORDER BY timestamp DESC LIMIT %s
user_logs(table, user_id, limit) ==
    LET mine == SelectSeq(table, LAMBDA r : r.user_id = user_id)
        n == IF limit < Len(mine) THEN limit ELSE Len(mine)
    IN  [i \in 1..n |-> mine[Len(mine) + 1 - i]]

\* Database.get_user_logs
get_user_logs(user_id, limit) ==
    /\ Idle
    /\ conn' = [conn EXCEPT ![get_connection] = put_connection(@)]
    /\ last' = Call("get_user_logs", user_id, "-", "-", "-", limit,
                    List(user_logs(audit_logs, user_id, limit)))
    /\ UNCHANGED <<github_apis, cipher, task, added>>
    /\ UNCHANGED <<remote, remote_calls, batch, executed, reply, repositories, audit_logs>>

----------------------------------------------------------------------------
(* Credential commands of the chat layer: /add_api, /load_api and the remove_api
   button. The chat is served one update at a time; a command begins the call
   log anew. *)

\* the account each token the remote service knows belongs to
TokenLogin == [t \in Tokens |-> IF t = "ghp_1" THEN "octo1" ELSE "octo2"]

\* GET /user: the response status and body, or the exception the HTTP client
\* raises (status 0) when the service cannot be reached
http_get_user(github_token, net) ==
    CASE net = "down" ->
            [status |-> 0, raised |-> TRUE, login |-> "-",
             message |-> "Cannot connect to host"]
      [] github_token \in DOMAIN TokenLogin ->
            [status |-> 200, raised |-> FALSE, login |-> TokenLogin[github_token],
             message |-> "OK"]
      [] OTHER ->
            [status |-> 401, raised |-> FALSE, login |-> "-",
             message |-> "Bad credentials"]

\* a buggy validate_token: every response that arrives counts as valid
validate_token_any_response(github_token, net) ==
    LET response == http_get_user(github_token, net)
    IN  CASE response.raised -> <<FALSE, response.message>>
          [] response.status = 200 -> <<TRUE, response.login>>
          [] OTHER -> <<TRUE, "Unknown">>

\* GitHubAPI.validate_token: (True, login) for status 200, (False, message) for
\* every other status and when the request raised
validate_token(github_token, net) ==
    LET response == http_get_user(github_token, net)
    IN  CASE response.raised -> <<FALSE, response.message>>
          [] response.status = 200 -> <<TRUE, response.login>>
          [] OTHER -> <<FALSE, response.message>>

\* a message of the chat layer without buttons
Message(to, text) ==
    [to |-> to, text |-> text, count |-> 0, buttons |-> {}, shown |-> <<>>]

\* BotHandlers.add_api_command; args are the words after the command
add_api_command(user_id, args, net, iv, fault) ==
    /\ Idle
    /\ batch.pc \in {"idle", "done"}
    /\ CASE ~is_admin(user_id) ->
              /\ reply' = Message("add_api_command", "Access Denied")
              /\ remote_calls' = <<>>
              /\ UNCHANGED <<vault_vars, audit_logs>>
         [] is_admin(user_id) /\ Len(args) # 2 ->
              /\ reply' = Message("add_api_command", "Invalid Usage")
              /\ remote_calls' = <<>>
              /\ UNCHANGED <<vault_vars, audit_logs>>
         [] OTHER ->
              LET api_name == args[1]
                  github_token == args[2]
                  validation == validate_token(github_token, net)
                  is_valid == validation[1]
                  github_username == validation[2]
              IN  /\ remote_calls' =
                        <<RemoteCall("validate_token", github_token, "-", "-", FALSE,
                                     http_get_user(github_token, net).status, is_valid)>>
                  /\ IF ~is_valid
                     THEN /\ reply' = Message("add_api_command", "Invalid GitHub Token")
                          /\ UNCHANGED <<vault_vars, audit_logs>>
                     ELSE /\ Len(audit_logs) < MaxLogs
                          /\ add_github_api(user_id, api_name, github_token,
                                            github_username, iv, fault)
                          /\ reply' = Message("add_api_command",
                                              IF fault = "none"
                                              THEN "GitHub API Added Successfully"
                                              ELSE "Failed to Add API")
                          /\ audit_logs' =
                                IF fault = "none"
                                THEN log_action(audit_logs, user_id, "add_api", api_name,
                                                "success")
                                ELSE audit_logs
    /\ UNCHANGED <<remote, batch, executed, repositories>>

\* BotHandlers.load_api_command
load_api_command(user_id, args, fault) ==
    /\ Idle
    /\ batch.pc \in {"idle", "done"}
    /\ remote_calls' = <<>>
    /\ CASE ~is_admin(user_id) ->
              /\ reply' = Message("load_api_command", "Access Denied")
              /\ UNCHANGED <<vault_vars, audit_logs>>
         [] is_admin(user_id) /\ Len(args) # 1 ->
              /\ reply' = Message("load_api_command", "Invalid Usage")
              /\ UNCHANGED <<vault_vars, audit_logs>>
         [] OTHER ->
              LET api_name == args[1]
                  apis == user_apis(View(conn[get_connection]), user_id)
                  api_exists == \E i \in DOMAIN apis : apis[i].api_name = api_name
              IN  IF ~api_exists
                  THEN /\ reply' = Message("load_api_command", "API Not Found")
                       /\ UNCHANGED <<vault_vars, audit_logs>>
                  ELSE /\ Len(audit_logs) < MaxLogs
                       /\ set_active_api(user_id, api_name, fault)
                       /\ reply' = Message("load_api_command",
                                           IF fault = "none"
                                           THEN "API Loaded Successfully"
                                           ELSE "Failed to Load API")
                       /\ audit_logs' =
                             IF fault = "none"
                             THEN log_action(audit_logs, user_id, "load_api", api_name,
                                             "success")
                             ELSE audit_logs
    /\ UNCHANGED <<remote, batch, executed, repositories>>

\* BotHandlers.button_callback with data "remove_api:<api_name>"
button_callback_remove_api(user_id, api_name, fault) ==
    /\ Idle
    /\ batch.pc \in {"idle", "done"}
    /\ Len(audit_logs) < MaxLogs
    /\ remote_calls' = <<>>
    /\ remove_github_api(user_id, api_name, fault)
    /\ reply' = Message("button_callback",
                        IF fault = "none" THEN "API Removed Successfully"
                        ELSE "Failed to Remove API")
    /\ audit_logs' = IF fault = "none"
                     THEN log_action(audit_logs, user_id, "remove_api", api_name, "success")
                     ELSE audit_logs
    /\ UNCHANGED <<remote, batch, executed, repositories>>

----------------------------------------------------------------------------
(* Single-repository commands: /public and /private *)

\* BotHandlers.make_public_command / make_private_command with one argument, and
\* _toggle_repository_visibility, which they run: one PATCH, then the cache row
\* on success and the audit entry either way
toggle_visibility_command(user_id, repo_name, make_private) ==
    /\ Idle
    /\ batch.pc \in {"idle", "done"}
    /\ Len(audit_logs) < MaxLogs
    /\ \E active_api \in active_api_now(user_id) :
          LET owner == IF repo_name.owner # "" THEN repo_name.owner
                       ELSE active_api.row.github_username
              action == IF make_private THEN "make_private" ELSE "make_public"
              visibility == IF make_private THEN "private" ELSE "public"
              outcome == toggle_repository_visibility(owner, repo_name.repo, make_private)
          IN  CASE ~is_admin(user_id) ->
                     /\ reply' = Message("toggle_visibility_command", "Access Denied")
                     /\ remote_calls' = <<>>
                     /\ UNCHANGED <<last, remote, repositories, audit_logs>>
                [] is_admin(user_id) /\ active_api = None ->
                     /\ reply' = Message("toggle_visibility_command", "No Active API")
                     /\ remote_calls' = <<>>
                     /\ last' = Call("get_active_api", user_id, "-", "-", "-", "-",
                                     active_api)
                     /\ UNCHANGED <<remote, repositories, audit_logs>>
                [] OTHER ->
                     /\ last' = Call("get_active_api", user_id, "-", "-", "-", "-",
                                     active_api)
                     /\ remote' = remote_after_patch(owner, repo_name.repo, make_private)
                     /\ remote_calls' =
                           <<RemoteCall("toggle_repository_visibility",
                                        active_api.row.github_token, owner, repo_name.repo,
                                        make_private,
                                        http_patch_repo(owner, repo_name.repo).status,
                                        outcome[1])>>
                     /\ reply' = Message("toggle_visibility_command",
                                         IF outcome[1] THEN "Success!" ELSE "Failed!")
                     /\ repositories' =
                           IF outcome[1]
                           THEN update_repository_status(repositories, user_id,
                                                         repo_name.repo, owner, visibility)
                           ELSE repositories
                     /\ audit_logs' =
                           log_action(audit_logs, user_id, action,
                                      full_name(owner, repo_name.repo),
                                      IF outcome[1] THEN "success" ELSE "failed")
    /\ UNCHANGED <<github_apis, cipher, conn, task, added>>
    /\ UNCHANGED <<batch, executed>>

----------------------------------------------------------------------------
(* User management commands of the chat layer: /authorize and /revoke *)

\* int(context.args[0]) succeeds for the words that are user ids
is_user_id(word) == word \in Tenants

\* BotHandlers.authorize_command; args are the words after the command. A fault
\* is an exception inside Database.authorize_user, which then returns False.
authorize_command(user_id, args, fault) ==
    /\ Idle
    /\ batch.pc \in {"idle", "done"}
    /\ CASE ~is_admin(user_id) ->
              /\ reply' = Message("authorize_command", "Admin Access Required")
              /\ UNCHANGED <<vault_vars, users>>
         [] Len(args) # 1 ->
              /\ reply' = Message("authorize_command", "Invalid Usage")
              /\ UNCHANGED <<vault_vars, users>>
         [] ~is_user_id(args[1]) ->
              /\ reply' = Message("authorize_command", "Invalid User ID")
              /\ UNCHANGED <<vault_vars, users>>
         [] fault # "none" ->
              /\ conn' = [conn EXCEPT ![get_connection] = put_connection(@)]
              /\ last' = Call("authorize_user", args[1], "-", "-", "-", "error",
                              Bool(FALSE))
              /\ reply' = Message("authorize_command", "Authorization Failed")
              /\ UNCHANGED <<github_apis, cipher, task, added, users>>
         [] OTHER ->
              /\ authorize_user(args[1])
              /\ reply' = Message("authorize_command", "User Authorized")
    /\ UNCHANGED <<remote, remote_calls, batch, executed, repositories, audit_logs>>

\* a buggy revoke_command: the target is not checked against the admins
revoke_command_any_target(user_id, args, fault) ==
    /\ Idle
    /\ batch.pc \in {"idle", "done"}
    /\ is_admin(user_id)
    /\ Len(args) = 1 /\ is_user_id(args[1])
    /\ revoke_user(args[1])
    /\ reply' = Message("revoke_command", "User Access Revoked")
    /\ UNCHANGED <<remote, remote_calls, batch, executed, repositories, audit_logs>>

\* BotHandlers.revoke_command
revoke_command(user_id, args, fault) ==
    /\ Idle
    /\ batch.pc \in {"idle", "done"}
    /\ CASE ~is_admin(user_id) ->
              /\ reply' = Message("revoke_command", "Admin Access Required")
              /\ UNCHANGED <<vault_vars, users>>
         [] Len(args) # 1 ->
              /\ reply' = Message("revoke_command", "Invalid Usage")
              /\ UNCHANGED <<vault_vars, users>>
         [] ~is_user_id(args[1]) ->
              /\ reply' = Message("revoke_command", "Invalid User ID")
              /\ UNCHANGED <<vault_vars, users>>
         [] is_admin(args[1]) ->
              /\ reply' = Message("revoke_command", "Cannot Revoke Admin")
              /\ UNCHANGED <<vault_vars, users>>
         [] fault # "none" ->
              /\ conn' = [conn EXCEPT ![get_connection] = put_connection(@)]
              /\ last' = Call("revoke_user", args[1], "-", "-", "-", "error",
                              Bool(FALSE))
              /\ reply' = Message("revoke_command", "Revocation Failed")
              /\ UNCHANGED <<github_apis, cipher, task, added, users>>
         [] OTHER ->
              /\ revoke_user(args[1])
              /\ reply' = Message("revoke_command", "User Access Revoked")
    /\ UNCHANGED <<remote, remote_calls, batch, executed, repositories, audit_logs>>

----------------------------------------------------------------------------
(* GitHubVisibilityBot: start(), its polling loop, stop() and the signal
   handler. One action per stretch of code between awaits. *)

\* the names of a history of calls
Called(calls) == {calls[i] : i \in DOMAIN calls}

\* signal_handler of setup_signal_handlers, installed for SIGINT and SIGTERM
\* before start() is called: self._running = False
signal_handler ==
    /\ bot.pc # "returned"
    /\ bot' = [bot EXCEPT !.running = FALSE,
                          !.signalled = @ \/ bot.pc = "loop"]

\* start() up to its first await: initialize() builds the application, then
\* self._running = True
start ==
    /\ bot.pc = "constructed"
    /\ bot' = [bot EXCEPT !.pc = IF bot.running THEN "returned" ELSE "application.initialize",
                          !.running = TRUE]

\* one of the awaited calls application.initialize(), application.start() and
\* updater.start_polling(); a call that raises takes start() to its finally clause
start_await(raises) ==
    /\ bot.pc \in {"application.initialize", "application.start", "updater.start_polling"}
    /\ bot' = IF raises THEN [bot EXCEPT !.pc = "finally"]
              ELSE [bot EXCEPT
                      !.calls = Append(@, bot.pc),
                      !.pc = CASE bot.pc = "application.initialize" -> "application.start"
                               [] bot.pc = "application.start" -> "updater.start_polling"
                               [] OTHER -> "loop"]

\* while self._running: await asyncio.sleep(1) -- the test that ends the loop
start_loop_exit ==
    /\ bot.pc = "loop"
    /\ ~bot.running
    /\ bot' = [bot EXCEPT !.pc = "finally"]

\* stop() called from the finally clause of start(), up to its first await:
\* it returns at once when self._running is false
stop ==
    /\ bot.pc = "finally"
    /\ bot' = IF ~bot.running THEN [bot EXCEPT !.pc = "returned"]
              ELSE [bot EXCEPT !.pc = "updater.stop", !.running = FALSE]

\* the rest of stop(): updater.stop() if the updater is running,
\* application.stop() if the application is running, application.shutdown()
stop_await ==
    /\ bot.pc \in {"updater.stop", "application.stop", "application.shutdown"}
    /\ LET due == CASE bot.pc = "updater.stop" -> "updater.start_polling" \in Called(bot.calls)
                    [] bot.pc = "application.stop" -> "application.start" \in Called(bot.calls)
                    [] OTHER -> TRUE
       IN  bot' = [bot EXCEPT
                     !.calls = IF due THEN Append(@, bot.pc) ELSE @,
                     !.pc = CASE bot.pc = "updater.stop" -> "application.stop"
                              [] bot.pc = "application.stop" -> "application.shutdown"
                              [] OTHER -> "returned"]

\* updates are fetched and handled while start() sleeps in its loop
Polling == bot.pc = "loop"

----------------------------------------------------------------------------
(* The connection pool: how each Database operation borrows and returns its
   connection. Every operation has the shape
       try: conn = getconn(); try: <statements> finally: putconn(conn)
       except Exception: return <failure value>
   and no operation awaits while it holds a connection, so operations run one
   at a time. create_user first awaits get_user, an operation of its own. *)

\* the pool after Database.__init__: no connection is borrowed, no operation runs
NoOperation ==
    [borrowed |-> 0, op |-> "-", pc |-> "idle", held |-> 0, gets |-> 0,
     inner |-> FALSE, outcome |-> "-", result |-> "-"]

\* the operations of class Database that use the pool
Operations ==
    {"_test_connection", "create_user", "get_user", "authorize_user", "revoke_user",
     "add_github_api", "get_user_apis", "get_active_api", "set_active_api",
     "remove_github_api", "update_repository_status", "log_action", "get_user_logs"}

\* how the statements between getconn and putconn end: they run to the return at
\* their end, take an early return (set_active_api without a match, get_active_api
\* without a row, get_user finding a row), or raise
Outcomes(op) ==
    IF op \in {"set_active_api", "get_active_api", "get_user"}
    THEN {"return", "early return", "raise"}
    ELSE {"return", "raise"}

\* an operation is called; create_user begins with existing = await get_user(...)
db_call(op) ==
    /\ pool.pc = "idle"
    /\ pool' = [NoOperation EXCEPT !.borrowed = pool.borrowed, !.op = op,
                                   !.pc = "getconn", !.inner = op = "create_user"]

\* Database._get_connection: connection_pool.getconn() hands out a connection,
\* or raises (pool exhausted, server unreachable) with nothing borrowed
db_getconn(raises) ==
    /\ pool.pc = "getconn"
    /\ pool' = IF raises THEN [pool EXCEPT !.pc = "except", !.outcome = "raise"]
               ELSE [pool EXCEPT !.pc = "statements", !.borrowed = @ + 1,
                                 !.held = @ + 1, !.gets = @ + 1]

\* the statements run on the borrowed connection
db_statements(outcome) ==
    /\ pool.pc = "statements"
    /\ outcome \in Outcomes(IF pool.inner THEN "get_user" ELSE pool.op)
    /\ pool' = [pool EXCEPT !.pc = "finally", !.outcome = outcome]

\* a buggy db_putconn: the connection is returned on the paths that do not
\* raise only
db_putconn_not_on_raise ==
    /\ pool.pc = "finally"
    /\ pool' = [pool EXCEPT
                  !.borrowed = IF pool.outcome = "raise" THEN @ ELSE @ - 1,
                  !.held = IF pool.outcome = "raise" THEN @ ELSE @ - 1,
                  !.pc = IF pool.outcome = "raise" THEN "except" ELSE "return"]

\* finally: self._put_connection(conn), on every way out of the statements
db_putconn ==
    /\ pool.pc = "finally"
    /\ pool' = [pool EXCEPT !.borrowed = @ - 1, !.held = @ - 1,
                            !.pc = IF pool.outcome = "raise" THEN "except" ELSE "return"]

\* the operation returns: its failure value from the except clause, its result
\* otherwise. When it is the get_user awaited by create_user, create_user goes
\* on: it returns True if a row was found and borrows a connection for its
\* INSERT if none was found or get_user failed (get_user then returns None).
db_return ==
    /\ pool.pc \in {"except", "return"}
    /\ pool' = CASE pool.inner /\ pool.outcome = "early return" ->
                      [pool EXCEPT !.pc = "idle", !.inner = FALSE, !.result = "ok"]
                 [] pool.inner ->
                      [pool EXCEPT !.pc = "getconn", !.inner = FALSE, !.outcome = "-"]
                 [] OTHER ->
                      [pool EXCEPT !.pc = "idle",
                                   !.result = IF pool.pc = "except" THEN "failed" ELSE "ok"]

----------------------------------------------------------------------------
(* GitHubAPI.batch_toggle_visibility: one toggle_single task per list entry, run
   together by asyncio.gather under an asyncio.Semaphore. A task is "waiting" at the
   semaphore, "in_flight" while its PATCH request is out, "sleeping" in the
   asyncio.sleep it makes with the semaphore held, and then "done". *)

\* asyncio.Semaphore(3)
SEMAPHORE == 3

\* GitHubAPI.batch_toggle_visibility up to asyncio.gather: the tasks are created
batch_toggle_visibility(token, repos, make_private) ==
    /\ gather.pc \in {"idle", "done"}
    /\ executed < MaxBatches
    /\ gather' = [pc |-> "running", repos |-> repos, make_private |-> make_private,
                  token |-> token, semaphore |-> SEMAPHORE,
                  toggle_single |-> [i \in DOMAIN repos |-> "waiting"],
                  results |-> <<>>]
    /\ remote_calls' = <<>>
    /\ executed' = executed + 1
    /\ UNCHANGED vault_vars
    /\ UNCHANGED <<remote, batch, reply, repositories, audit_logs, crypt>>

\* a buggy toggle_single_acquire: the task does not wait for a free slot
toggle_single_acquire_ungated(i) ==
    /\ gather.pc = "running"
    /\ gather.toggle_single[i] = "waiting"
    /\ gather' = [gather EXCEPT !.semaphore = @ - 1, !.toggle_single[i] = "in_flight"]
    /\ UNCHANGED vault_vars
    /\ UNCHANGED <<remote, remote_calls, batch, executed, reply, repositories,
                   audit_logs, crypt>>

\* async with semaphore: task i enters when a slot is free and every task created
\* before it has entered (waiters are woken first come, first served), and sends
\* its request
toggle_single_acquire(i) ==
    /\ gather.pc = "running"
    /\ gather.toggle_single[i] = "waiting"
    /\ gather.semaphore > 0
    /\ \A j \in 1..(i - 1) : gather.toggle_single[j] # "waiting"
    /\ gather' = [gather EXCEPT !.semaphore = @ - 1, !.toggle_single[i] = "in_flight"]
    /\ UNCHANGED vault_vars
    /\ UNCHANGED <<remote, remote_calls, batch, executed, reply, repositories,
                   audit_logs, crypt>>

\* a buggy toggle_single_response: after a call that did not succeed the task
\* ends at once, giving its slot back without the sleep
toggle_single_response_sleep_on_success(i) ==
    /\ gather.pc = "running"
    /\ gather.toggle_single[i] = "in_flight"
    /\ LET owner == gather.repos[i][1]
           repo_name == gather.repos[i][2]
           outcome == toggle_repository_visibility(owner, repo_name, gather.make_private)
       IN  /\ remote' = remote_after_patch(owner, repo_name, gather.make_private)
           /\ remote_calls' = Append(remote_calls,
                 RemoteCall("toggle_repository_visibility", gather.token, owner,
                            repo_name, gather.make_private,
                            http_patch_repo(owner, repo_name).status, outcome[1]))
           /\ gather' = [gather EXCEPT
                            !.toggle_single[i] = IF outcome[1] THEN "sleeping" ELSE "done",
                            !.semaphore = IF outcome[1] THEN @ ELSE @ + 1,
                            !.results = dict_set(@, full_name(owner, repo_name),
                                                 <<outcome[1], outcome[2]>>)]
    /\ UNCHANGED vault_vars
    /\ UNCHANGED <<batch, executed, reply, repositories, audit_logs, crypt>>

\* the response of task i's request arrives: toggle_repository_visibility returns
\* and results["owner/repo"] is assigned; the task goes to sleep holding its slot
toggle_single_response(i) ==
    /\ gather.pc = "running"
    /\ gather.toggle_single[i] = "in_flight"
    /\ LET owner == gather.repos[i][1]
           repo_name == gather.repos[i][2]
           outcome == toggle_repository_visibility(owner, repo_name, gather.make_private)
       IN  /\ remote' = remote_after_patch(owner, repo_name, gather.make_private)
           /\ remote_calls' = Append(remote_calls,
                 RemoteCall("toggle_repository_visibility", gather.token, owner,
                            repo_name, gather.make_private,
                            http_patch_repo(owner, repo_name).status, outcome[1]))
           /\ gather' = [gather EXCEPT
                            !.toggle_single[i] = "sleeping",
                            !.results = dict_set(@, full_name(owner, repo_name),
                                                 <<outcome[1], outcome[2]>>)]
    /\ UNCHANGED vault_vars
    /\ UNCHANGED <<batch, executed, reply, repositories, audit_logs, crypt>>

\* a buggy toggle_single_release: the task ends without giving its slot back
toggle_single_release_keeps_slot(i) ==
    /\ gather.pc = "running"
    /\ gather.toggle_single[i] = "sleeping"
    /\ gather' = [gather EXCEPT !.toggle_single[i] = "done"]
    /\ UNCHANGED vault_vars
    /\ UNCHANGED <<remote, remote_calls, batch, executed, reply, repositories,
                   audit_logs, crypt>>

\* asyncio.sleep(0.2) of task i is over: the semaphore is released, the task ends
toggle_single_release(i) ==
    /\ gather.pc = "running"
    /\ gather.toggle_single[i] = "sleeping"
    /\ gather' = [gather EXCEPT !.semaphore = @ + 1, !.toggle_single[i] = "done"]
    /\ UNCHANGED vault_vars
    /\ UNCHANGED <<remote, remote_calls, batch, executed, reply, repositories,
                   audit_logs, crypt>>

\* asyncio.gather returns when every task has ended; results is returned
batch_toggle_visibility_return ==
    /\ gather.pc = "running"
    /\ \A i \in DOMAIN gather.toggle_single : gather.toggle_single[i] = "done"
    /\ gather' = [gather EXCEPT !.pc = "done"]
    /\ UNCHANGED vault_vars
    /\ UNCHANGED <<remote, remote_calls, batch, executed, reply, repositories,
                   audit_logs, crypt>>

----------------------------------------------------------------------------
(* The two cipher implementations of one process: the methods of a Database
   constructed under Config.ENCRYPTION_KEY and the functions of app/encryption.py,
   which read the same setting *)

Implementations == {"Database", "encryption"}

\* a secret is encrypted by one implementation under the process key
encrypt_with(impl, ENCRYPTION_KEY, iv, secret) ==
    IF impl = "Database"
    THEN encrypt_token(init_encryption(ENCRYPTION_KEY), iv, secret)
    ELSE encryption_encrypt_token(ENCRYPTION_KEY, iv, secret)

\* a ciphertext is decrypted by one implementation under the process key
decrypt_with(impl, ENCRYPTION_KEY, encrypted_token) ==
    IF impl = "Database"
    THEN decrypt_token(init_encryption(ENCRYPTION_KEY), encrypted_token)
    ELSE encryption_decrypt_token(ENCRYPTION_KEY, encrypted_token)

\* a process starts under a key and encrypts a secret
crypt_encrypt(ENCRYPTION_KEY, impl, iv, secret) ==
    /\ crypt.pc \in {"idle", "decrypted"}
    /\ crypt' = [pc |-> "encrypted", ENCRYPTION_KEY |-> ENCRYPTION_KEY, secret |-> secret,
                 encrypted |-> <<encrypt_with(impl, ENCRYPTION_KEY, iv, secret)>>,
                 encrypted_by |-> <<impl>>, encrypted_under |-> ENCRYPTION_KEY,
                 damage |-> "none", decrypted |-> <<>>, decrypted_by |-> "-"]
    /\ UNCHANGED vault_vars
    /\ UNCHANGED <<batch_vars, gather>>

\* the process encrypts the same secret once more
crypt_encrypt_again(impl, iv) ==
    /\ crypt.pc = "encrypted"
    /\ Len(crypt.encrypted) = 1
    /\ crypt' = [crypt EXCEPT
                    !.encrypted =
                        Append(@, encrypt_with(impl, crypt.ENCRYPTION_KEY, iv, crypt.secret)),
                    !.encrypted_by = Append(@, impl)]
    /\ UNCHANGED vault_vars
    /\ UNCHANGED <<batch_vars, gather>>

\* the process is restarted under another value of ENCRYPTION_KEY; the ciphertexts
\* it stored stay as they are
crypt_restart(ENCRYPTION_KEY) ==
    /\ crypt.pc = "encrypted"
    /\ crypt.ENCRYPTION_KEY = crypt.encrypted_under
    /\ ENCRYPTION_KEY # crypt.ENCRYPTION_KEY
    /\ crypt' = [crypt EXCEPT !.ENCRYPTION_KEY = ENCRYPTION_KEY]
    /\ UNCHANGED vault_vars
    /\ UNCHANGED <<batch_vars, gather>>

\* what damage does to a stored ciphertext: "cut_text" leaves a string that is not
\* valid base64, "cut_bytes" a valid base64 string of a shortened token, "tamper" a
\* token whose ciphertext was replaced
damaged(kind, encrypted_token) ==
    CASE kind = "cut_text" -> <<"b64 cut", encrypted_token[2]>>
      [] kind = "cut_bytes" ->
            b64encode([encrypted_token[2] EXCEPT !.data = <<"utf-8", "">>])
      [] OTHER ->
            b64encode([encrypted_token[2] EXCEPT !.data = <<"utf-8", "forged">>])

\* the stored ciphertexts are damaged
crypt_damage(kind) ==
    /\ crypt.pc = "encrypted"
    /\ crypt.damage = "none"
    /\ crypt' = [crypt EXCEPT
                    !.damage = kind,
                    !.encrypted = [i \in DOMAIN crypt.encrypted |->
                                      damaged(kind, crypt.encrypted[i])]]
    /\ UNCHANGED vault_vars
    /\ UNCHANGED <<batch_vars, gather>>

\* the process decrypts every ciphertext it made
crypt_decrypt(impl) ==
    /\ crypt.pc = "encrypted"
    /\ crypt' = [crypt EXCEPT
                    !.pc = "decrypted",
                    !.decrypted_by = impl,
                    !.decrypted = [i \in DOMAIN crypt.encrypted |->
                        decrypt_with(impl, crypt.ENCRYPTION_KEY, crypt.encrypted[i])]]
    /\ UNCHANGED vault_vars
    /\ UNCHANGED <<batch_vars, gather>>

----------------------------------------------------------------------------
(* Specifications *)

\* the ENCRYPTION_KEY the first process runs with
FirstKey == <<"k", "1">>

\* no batch has been executed yet
NoBatch ==
    [pc |-> "idle", user_id |-> "-", visibility_action |-> "-", repo_list |-> <<>>,
     i |-> 0, repo_info |-> None, make_private |-> FALSE, token |-> "-",
     results |-> <<>>, offered |-> FALSE]

\* batch_toggle_visibility has not been called yet
NoGather ==
    [pc |-> "idle", repos |-> <<>>, make_private |-> FALSE, token |-> "-",
     semaphore |-> 0, toggle_single |-> <<>>, results |-> <<>>]

\* no secret has been encrypted yet
NoCrypt ==
    [pc |-> "idle", ENCRYPTION_KEY |-> <<>>, secret |-> "-", encrypted |-> <<>>,
     encrypted_by |-> <<>>, encrypted_under |-> <<>>, damage |-> "none",
     decrypted |-> <<>>, decrypted_by |-> "-"]

\* no handler has replied yet
NoReply == [to |-> "-", text |-> "-", count |-> 0, buttons |-> {}, shown |-> <<>>]

\* no call has run on the connection yet
IdleTask ==
    [pc |-> "idle", user_id |-> "-", api_name |-> "-", found |-> FALSE,
     overlapped |-> FALSE, done |-> FALSE]

\* GitHubVisibilityBot.__init__: self._running = False, no application yet;
\* `calls` is the history of the calls made on the application and its updater,
\* `signalled` that of the signals received while start() was in its loop
NoBot == [pc |-> "constructed", running |-> FALSE, calls |-> <<>>, signalled |-> FALSE]

Init ==
    /\ github_apis = <<>>
    /\ cipher = init_encryption(FirstKey)
    /\ conn = [c \in Connections |-> [pending |-> <<>>]]
    /\ task = [c \in Connections |-> IdleTask]
    /\ last = Call("__init__", "-", "-", "-", "-", "-", None)
    /\ added = [k \in Tenants \X ConcNames |-> NoCredential]
    /\ remote = RemoteAtStart
    /\ remote_calls = <<>>
    /\ batch = NoBatch
    /\ executed = 0
    /\ reply = NoReply
    /\ repositories = <<>>
    /\ audit_logs = <<>>
    /\ gather = NoGather
    /\ crypt = NoCrypt
    /\ users = <<>>
    /\ bot = NoBot
    /\ pool = NoOperation

\* iv drawn by add_github_api in the vault specifications
VaultIVs == {"iv1"}

VaultCalls(tenants, credentials, faults) ==
    \/ \E u \in tenants, n \in Names, cr \in credentials, iv \in VaultIVs, f \in faults :
          add_github_api(u, n, cr[1], cr[2], iv, f)
    \/ \E u \in tenants, f \in faults \cap {"none", "stmt1"} : get_user_apis(u, f)
    \/ \E u \in tenants, f \in faults \cap {"none", "stmt1"} : get_active_api(u, f)
    \/ \E u \in tenants, n \in Names, f \in faults : set_active_api(u, n, f)
    \/ \E u \in tenants, n \in Names, f \in faults \cap {"none", "stmt1", "commit"} :
          remove_github_api(u, n, f)

\* the vault called by one caller at a time, the persistence layer never failing
Next == VaultCalls(Tenants, Credentials, {"none"}) /\ UNCHANGED <<batch_vars, gather, crypt, users, bot, pool>>

Spec == Init /\ [][Next]_vars

\* the vault called by one caller at a time, the persistence layer failing at will
NextFault == VaultCalls(Tenants, {<<"ghp_1", "octo1">>}, Faults) /\ UNCHANGED <<batch_vars, gather, crypt, users, bot, pool>>

SpecFault == Init /\ [][NextFault]_vars

\* one tenant's vault across restarts of the process under any configured key
NextRotate ==
    /\ \/ VaultCalls({"t1"}, Credentials, {"none"})
       \/ \E k \in EncryptionKeys : Database_init(k)
    /\ UNCHANGED <<batch_vars, gather, crypt, users, bot, pool>>

SpecRotate == Init /\ [][NextRotate]_vars

\* one tenant's records are added while no call runs; set_active_api calls for that
\* tenant then run concurrently on the connections of the pool
NextConc ==
    /\ \/ \E n \in ConcNames : add_github_api("t1", n, "ghp_1", "octo1", "iv1", "none")
       \/ \E c \in Connections, n \in ConcNames : sa_begin(c, "t1", n)
       \/ \E c \in Connections : sa_deactivate(c)
       \/ \E c \in Connections : sa_activate(c)
       \/ \E c \in Connections : sa_commit(c)
       \/ \E c \in Connections : sa_return(c)
    /\ UNCHANGED <<batch_vars, gather, crypt, users, bot, pool>>

SpecConc == Init /\ [][NextConc]_vars

\* the repository string naming the first n of LongNames
LongList(n) == [i \in 1..n |-> Item("a", LongNames[i])]

\* repository strings the chat layer is given: a pair named twice, a pair named
\* by two spellings, a blank item and a missing repository, a blank string, no
\* string, a list whose second request raises, one whose first request is answered
\* with a server error, and lists of exactly and of one more than the most a batch may name
RepoStrings ==
    { <<Item("a", "y"), Item("a", "y"), Item("a", "w")>>,
      <<Item("octo1", "x"), Item("", "x")>>,
      <<Item("", "x"), Item("", ""), Item("a", "z")>>,
      <<Item("", "")>>,
      <<>>,
      <<Item("a", "r01"), Item("a", "u"), Item("a", "y")>>,
      <<Item("a", "e"), Item("", "x")>>,
      LongList(MAX_BATCH),
      LongList(MAX_BATCH + 1) }

\* the repository strings a user sends: every one for the administrator, one for
\* the user who is not an administrator and has no credential
RepoStringsOf(user_id) ==
    IF is_admin(user_id) THEN RepoStrings
    ELSE {<<Item("octo1", "x"), Item("", "x")>>}

\* callback data a callback query may carry
CallbackData ==
    {batch_confirm(a, r) : a \in {"toggle", "private", "public"}, r \in RepoStrings}

\* the chat layer: one credential stored and activated, batch commands, callback
\* queries, and the steps of the batch they start
NextBatch ==
    /\ \/ /\ add_github_api("t1", "work", "ghp_1", "octo1", "iv1", "none")
          /\ UNCHANGED batch_vars
       \/ /\ set_active_api("t1", "work", "none")
          /\ UNCHANGED batch_vars
       \/ \E u \in Tenants :
             \E k \in {"", "private", "public"}, r \in RepoStringsOf(u) :
                batch_toggle_command(u, k, r)
       \/ \E u \in Tenants, d \in CallbackData :
             d.repos_str \in RepoStringsOf(u) /\ button_callback(u, d)
       \/ batch_get_repository
       \/ batch_toggle_repository
       \/ batch_sleep
       \/ batch_persist
    /\ UNCHANGED <<gather, crypt, users, bot, pool>>

SpecBatch == Init /\ [][NextBatch]_vars

\* lists handed to batch_toggle_visibility: distinct repositories, more than the
\* semaphore admits at once, and a list with a repeated pair, a transport fault
\* and a 403
GatherLists ==
    { parse_repository_list(LongList(GatherLen), "octo1"),
      <<<<"a", "y">>, <<"a", "u">>, <<"a", "y">>, <<"a", "w">>>> }

\* batch_toggle_visibility called with a list and a target, and its tasks
NextGather ==
    /\ \/ \E repos \in GatherLists, make_private \in BOOLEAN :
             batch_toggle_visibility("ghp_1", repos, make_private)
       \/ \E i \in DOMAIN gather.toggle_single : toggle_single_acquire(i)
       \/ \E i \in DOMAIN gather.toggle_single : toggle_single_response(i)
       \/ \E i \in DOMAIN gather.toggle_single : toggle_single_release(i)
       \/ batch_toggle_visibility_return
    /\ UNCHANGED <<users, bot, pool>>

SpecGather == Init /\ [][NextGather]_vars

\* values of ENCRYPTION_KEY for the cipher: shorter than KEY_LEN, ending with a
\* blank, and longer than KEY_LEN
CipherKeys ==
    EncryptionKeys \cup {<<"k", "1", " ">>, [i \in 1..(KEY_LEN + 1) |-> "x"]}

\* secrets handed to the cipher
Secrets == Tokens \cup {"test_github_token_12345", ""}

NextCipher ==
    /\ \/ \E k \in CipherKeys, impl \in Implementations, iv \in IVs, secret \in Secrets :
             crypt_encrypt(k, impl, iv, secret)
       \/ \E impl \in Implementations, iv \in IVs : crypt_encrypt_again(impl, iv)
       \/ \E impl \in Implementations : crypt_decrypt(impl)
    /\ UNCHANGED <<users, bot, pool>>

SpecCipher == Init /\ [][NextCipher]_vars

\* the cipher handed ciphertexts of a process run under another key, and damaged
\* ciphertexts
NextCipherFault ==
    /\ \/ \E k \in CipherKeys, impl \in Implementations, secret \in Tokens :
             crypt_encrypt(k, impl, "iv1", secret)
       \/ \E k \in CipherKeys : crypt_restart(k)
       \/ \E kind \in {"cut_text", "cut_bytes", "tamper"} : crypt_damage(kind)
       \/ \E impl \in Implementations : crypt_decrypt(impl)
    /\ UNCHANGED <<users, bot, pool>>

SpecCipherFault == Init /\ [][NextCipherFault]_vars

\* the words a user sends after /add_api: a name and a token of either account,
\* a token the remote service rejects, and a missing word
AddArgs ==
    { <<"work", "ghp_1">>, <<"work", "ghp_2">>, <<"home", "ghp_2">>,
      <<"work", "ghp_0">>, <<"work">> }

\* the credential commands and the remove_api button, used by an administrator
\* and by a user who is not one
NextChat ==
    /\ \/ \E u \in Tenants, args \in AddArgs, net \in {"up", "down"},
             f \in {"none", "stmt2"} :
             add_api_command(u, args, net, "iv1", f)
       \/ \E u \in Tenants, args \in {<<"work">>, <<"home">>, <<>>},
             f \in {"none", "commit"} :
             load_api_command(u, args, f)
       \/ \E u \in Tenants, n \in Names, f \in {"none", "commit"} :
             button_callback_remove_api(u, n, f)
    /\ UNCHANGED <<gather, crypt, users, bot, pool>>

SpecChat == Init /\ [][NextChat]_vars

\* batch_toggle_visibility on a running event loop: every request is answered or
\* fails in the end, every sleep ends, a task at the semaphore is woken when a
\* slot is free, and gather returns once its tasks have ended
GatherFairness ==
    /\ WF_vars((\E i \in DOMAIN gather.toggle_single : toggle_single_acquire(i))
                  /\ UNCHANGED <<users, bot, pool>>)
    /\ WF_vars((\E i \in DOMAIN gather.toggle_single : toggle_single_response(i))
                  /\ UNCHANGED <<users, bot, pool>>)
    /\ WF_vars((\E i \in DOMAIN gather.toggle_single : toggle_single_release(i))
                  /\ UNCHANGED <<users, bot, pool>>)
    /\ WF_vars(batch_toggle_visibility_return /\ UNCHANGED <<users, bot, pool>>)

SpecGatherLive == Init /\ [][NextGather]_vars /\ GatherFairness

\* user management called by one caller at a time, the persistence layer
\* never failing
NextUsers ==
    /\ \/ \E u \in Tenants, name \in UserNames : create_user(u, name)
       \/ \E u \in Tenants : get_user(u)
       \/ \E u \in Tenants : authorize_user(u)
       \/ \E u \in Tenants : revoke_user(u)
    /\ UNCHANGED <<batch_vars, gather, crypt, bot, pool>>

SpecUsers == Init /\ [][NextUsers]_vars

\* limits handed to get_user_logs: of /start, of the test and a single entry
Limits == {1, 5, 10}

\* the audit log written and read by one caller at a time, for two users
NextAudit ==
    /\ \/ \E u \in Tenants, a \in {"add_api", "load_api"}, s \in {"success", "failed"},
             f \in {"none", "stmt1"} :
             db_log_action(u, a, "work", s, f)
       \/ \E u \in Tenants, n \in Limits : get_user_logs(u, n)
    /\ UNCHANGED <<gather, crypt, users, bot, pool>>

SpecAudit == Init /\ [][NextAudit]_vars

\* the argument of /public and /private: a repository the token may change and
\* one it may not
CacheItems == {Item("a", "y"), Item("a", "w")}

\* callback data of batches over a private, a missing and a protected repository
CacheCallbacks ==
    {batch_confirm(a, <<Item("a", "y"), Item("a", "z"), Item("a", "w")>>) :
        a \in {"toggle", "private"}}

\* single-repository commands and batches of one administrator and of a user who
\* is not one, all writing the repository-status cache
NextCache ==
    /\ \/ /\ add_github_api("t1", "work", "ghp_1", "octo1", "iv1", "none")
          /\ UNCHANGED batch_vars
       \/ /\ set_active_api("t1", "work", "none")
          /\ UNCHANGED batch_vars
       \/ \E u \in Tenants, item \in CacheItems, make_private \in BOOLEAN :
             toggle_visibility_command(u, item, make_private)
       \/ \E u \in Tenants, d \in CacheCallbacks : button_callback(u, d)
       \/ batch_get_repository
       \/ batch_toggle_repository
       \/ batch_sleep
       \/ batch_persist
    /\ UNCHANGED <<gather, crypt, users, bot, pool>>

SpecCache == Init /\ [][NextCache]_vars

\* callback data of batches over a repository of another owner and one of the
\* credential's own account
SwitchCallbacks ==
    {batch_confirm(a, <<Item("a", "y"), Item("", "x")>>) : a \in {"toggle", "public"}}

\* batches of one tenant while the tenant's credentials are added, re-added,
\* switched and removed through the vault, also between the steps of a batch
NextSwitch ==
    /\ \/ /\ \E n \in Names, cr \in Credentials :
                add_github_api("t1", n, cr[1], cr[2], "iv1", "none")
          /\ UNCHANGED batch_vars
       \/ /\ \E n \in Names : set_active_api("t1", n, "none")
          /\ UNCHANGED batch_vars
       \/ /\ \E n \in Names : remove_github_api("t1", n, "none")
          /\ UNCHANGED batch_vars
       \/ \E d \in SwitchCallbacks : button_callback("t1", d)
       \/ batch_get_repository
       \/ batch_toggle_repository
       \/ batch_sleep
       \/ batch_persist
    /\ UNCHANGED <<gather, crypt, users, bot, pool>>

SpecSwitch == Init /\ [][NextSwitch]_vars

\* repository strings of the confirmations: a pair with its owner and an item
\* without one
ConfirmStrings == {<<Item("a", "y"), Item("", "x")>>}

\* a batch command of one tenant, the press of the button its confirmation shows,
\* and between the two the tenant's credentials added, re-added, switched and
\* removed through the vault (the calls /add_api, /load_api and the removal make)
NextConfirm ==
    /\ \/ /\ \E n \in Names, cr \in Credentials :
                add_github_api("t1", n, cr[1], cr[2], "iv1", "none")
          /\ UNCHANGED batch_vars
       \/ /\ \E n \in Names : set_active_api("t1", n, "none")
          /\ UNCHANGED batch_vars
       \/ /\ \E n \in Names : remove_github_api("t1", n, "none")
          /\ UNCHANGED batch_vars
       \/ \E k \in {"", "public"}, r \in ConfirmStrings : batch_toggle_command("t1", k, r)
       \/ \E d \in reply.buttons : button_callback("t1", d)
       \/ batch_get_repository
       \/ batch_toggle_repository
       \/ batch_sleep
       \/ batch_persist
    /\ UNCHANGED <<gather, crypt, users, bot, pool>>

SpecConfirm == Init /\ [][NextConfirm]_vars

\* the words sent after /authorize and /revoke: each user id, a word that is
\* not a number, and no word
UserArgs == {<<"t1">>, <<"t2">>, <<"abc">>, <<>>}

\* users register, the administrator and the other user send /authorize and
\* /revoke, and both use the credential and repository commands
NextAuthz ==
    /\ \/ /\ \E u \in Tenants : create_user(u, "alice")
          /\ UNCHANGED batch_vars
       \/ \E u \in Tenants, args \in UserArgs, f \in {"none", "stmt1"} :
             authorize_command(u, args, f)
       \/ \E u \in Tenants, args \in UserArgs, f \in {"none", "stmt1"} :
             revoke_command(u, args, f)
       \/ /\ \E u \in Tenants : add_api_command(u, <<"work", "ghp_1">>, "up", "iv1", "none")
          /\ UNCHANGED users
       \/ /\ \E u \in Tenants : load_api_command(u, <<"work">>, "none")
          /\ UNCHANGED users
       \/ /\ \E u \in Tenants : batch_toggle_command(u, "", <<Item("a", "y")>>)
          /\ UNCHANGED users
       \/ /\ \E u \in Tenants, make_private \in BOOLEAN :
                toggle_visibility_command(u, Item("a", "y"), make_private)
          /\ UNCHANGED users
    /\ UNCHANGED <<gather, crypt, bot, pool>>

SpecAuthz == Init /\ [][NextAuthz]_vars

\* users register under either name, and the administrator and the other user
\* send /authorize and /revoke
NextRoles ==
    /\ \/ /\ \E u \in Tenants, name \in UserNames : create_user(u, name)
          /\ UNCHANGED batch_vars
       \/ \E u \in Tenants, args \in UserArgs, f \in {"none", "stmt1"} :
             authorize_command(u, args, f)
       \/ \E u \in Tenants, args \in UserArgs, f \in {"none", "stmt1"} :
             revoke_command(u, args, f)
    /\ UNCHANGED <<gather, crypt, bot, pool>>

SpecRoles == Init /\ [][NextRoles]_vars

\* the steps of start() and stop()
BotStep ==
    /\ \/ start
       \/ \E raises \in BOOLEAN : start_await(raises)
       \/ start_loop_exit
       \/ stop
       \/ stop_await
    /\ UNCHANGED <<vault_vars, batch_vars, gather, crypt, users, pool>>

\* the bot from construction to the return of start(): signals arrive at any
\* time, and while the bot polls, users register and send /authorize and /revoke
NextBot ==
    \/ BotStep
    \/ /\ signal_handler
       /\ UNCHANGED <<vault_vars, batch_vars, gather, crypt, users, pool>>
    \/ /\ Polling
       /\ \/ /\ \E u \in Tenants : create_user(u, "alice")
             /\ UNCHANGED batch_vars
          \/ \E u \in Tenants, args \in {<<"t1">>, <<"t2">>} : authorize_command(u, args, "none")
          \/ \E u \in Tenants, args \in {<<"t1">>, <<"t2">>} : revoke_command(u, args, "none")
       /\ UNCHANGED <<gather, crypt, bot, pool>>

SpecBot == Init /\ [][NextBot]_vars

\* the event loop runs the coroutine of start() whenever it can continue
SpecBotLive == SpecBot /\ WF_vars(BotStep)

\* the Database operations called one after another, each ending in any of the
\* ways its code allows
NextPool ==
    /\ \/ \E op \in Operations : db_call(op)
       \/ \E raises \in BOOLEAN : db_getconn(raises)
       \/ \E outcome \in {"return", "early return", "raise"} : db_statements(outcome)
       \/ db_putconn
       \/ db_return
    /\ UNCHANGED <<vault_vars, batch_vars, gather, crypt, users, bot>>

SpecPool == Init /\ [][NextPool]_vars

----------------------------------------------------------------------------
(* Properties of the credential vault *)

HasRecord(user_id, api_name) == RowsNamed(github_apis, user_id, api_name) # {}

\* what get_active_api(user_id) can return for a committed table and a cipher
ActiveApiIn(table, c, user_id) ==
    {active_api_result(c, api_data) : api_data \in fetch_active(table, user_id)}

\* what get_active_api(user_id) can return in the current state
ActiveApiOf(user_id) == ActiveApiIn(github_apis, cipher, user_id)

\* C1: in every reachable state of the store, whether the calls before it succeeded
\* or failed, at most one record of each tenant has is_active = TRUE.
C1_AtMostOneActive ==
    \A u \in Tenants : Cardinality(ActiveRows(github_apis, u)) <= 1

\* C1 witness: a tenant with two records, one of them active, right after a
\* set_active_api call of that tenant that failed.
C1_Witness ==
    /\ last.op = "set_active_api"
    /\ last.ret = Bool(FALSE)
    /\ Cardinality(RowsOf(github_apis, last.user_id)) = 2
    /\ Cardinality(ActiveRows(github_apis, last.user_id)) = 1

\* C2: set_active_api with a name that has no record of the tenant returns false and
\* leaves the tenant with no active record (a record active before is not retained).
C2_MissingNameLeavesNoneActive ==
    (last.op = "set_active_api" /\ ~HasRecord(last.user_id, last.api_name))
        => /\ last.ret = Bool(FALSE)
           /\ ActiveRows(github_apis, last.user_id) = {}

\* C4: for a tenant with no active record, after add_github_api of a new name
\* get_active_api returns absent; set_active_api of an existing name returns true;
\* and after it get_active_api returns the record of that name, with the plaintext
\* token and the principal that were added.
C4_AddedIsInactive ==
    (last'.op = "add_github_api" /\ last'.note = "added"
        /\ ActiveRows(github_apis, last'.user_id) = {})
        => ActiveApiIn(github_apis', cipher', last'.user_id) = {None}

C4_SetActiveSucceeds ==
    (last'.op = "set_active_api" /\ HasRecord(last'.user_id, last'.api_name))
        => last'.ret = Bool(TRUE)

C4_ActiveIsAdded ==
    /\ (last.op = "set_active_api" /\ last.ret = Bool(TRUE))
         => \A r \in ActiveApiOf(last.user_id) :
               /\ r.kind = "dict"
               /\ r.row.user_id = last.user_id
               /\ r.row.api_name = last.api_name
               /\ <<r.row.github_token, r.row.github_username>>
                     = added[<<last.user_id, last.api_name>>]
    /\ (last.op = "get_active_api" /\ ActiveRows(github_apis, last.user_id) # {})
         => /\ last.ret \in ActiveApiOf(last.user_id)
            /\ last.ret.kind = "dict"
            /\ <<last.ret.row.github_token, last.ret.row.github_username>>
                  = added[<<last.user_id, last.ret.row.api_name>>]

C4_Scenario ==
    /\ [][C4_AddedIsInactive /\ C4_SetActiveSucceeds]_vars
    /\ []C4_ActiveIsAdded

\* C4 witness: get_active_api has just returned a record with the token and the
\* principal that were added under its name.
C4_Witness ==
    /\ last.op = "get_active_api"
    /\ last.ret.kind = "dict"
    /\ added[<<last.user_id, last.ret.row.api_name>>]
          = <<last.ret.row.github_token, last.ret.row.github_username>>

\* C5: a successful add_github_api leaves the record it wrote with is_active = FALSE,
\* also when the name existed and was the active record.
C5_AddClearsActive ==
    (last.op = "add_github_api" /\ last.ret = Bool(TRUE))
        => \A i \in RowsNamed(github_apis, last.user_id, last.api_name) :
              ~github_apis[i].is_active

\* C6: there is at most one record per (tenant, name), and after a successful
\* add_github_api the one record of that name holds the token and the principal of
\* that call.
C6_OneRecordPerName ==
    /\ \A u \in Tenants, n \in Names : Cardinality(RowsNamed(github_apis, u, n)) <= 1
    /\ (last.op = "add_github_api" /\ last.ret = Bool(TRUE))
         => /\ Cardinality(RowsNamed(github_apis, last.user_id, last.api_name)) = 1
            /\ \A i \in RowsNamed(github_apis, last.user_id, last.api_name) :
                  /\ decrypt_token(cipher, github_apis[i].github_token)
                        = [ok |-> TRUE, val |-> last.github_token]
                  /\ github_apis[i].github_username = last.github_username

\* C6 witness: add_github_api has just overwritten an existing name.
C6_Witness ==
    /\ last.op = "add_github_api"
    /\ last.note = "updated"
    /\ Cardinality(RowsNamed(github_apis, last.user_id, last.api_name)) = 1

\* C7: remove_github_api deletes the rows of that tenant and name and no other row,
\* changes no other row, leaves the tenant without active record when the removed
\* one was active, and the name is no longer listed by get_user_apis.
C7_RemoveStep ==
    (last'.op = "remove_github_api" /\ last'.ret = Bool(TRUE))
        => LET u == last'.user_id
               n == last'.api_name
               listed == user_apis(github_apis', u)
           IN  /\ github_apis' = SelectSeq(github_apis, LAMBDA r : ~Matches(r, u, n))
               /\ (\E i \in RowsNamed(github_apis, u, n) : github_apis[i].is_active)
                     => ActiveRows(github_apis', u) = {}
               /\ \A i \in DOMAIN listed : listed[i].api_name # n

C7_RemoveDeletesOnlyNamed == [][C7_RemoveStep]_vars

\* C7 witness: a record has just been removed, the tenant keeps another record and
\* has no active one.
C7_Witness ==
    /\ last.op = "remove_github_api"
    /\ last.ret = Bool(TRUE)
    /\ added[<<last.user_id, last.api_name>>] = NoCredential
    /\ ~HasRecord(last.user_id, last.api_name)
    /\ RowsOf(github_apis, last.user_id) # {}
    /\ ActiveRows(github_apis, last.user_id) = {}

\* C8: for a tenant that has an active record, get_active_api does not return None;
\* a token that cannot be decrypted under the current key is not reported as absent.
C8_UndecryptableNotAbsent ==
    (last.op = "get_active_api" /\ last.note # "error"
        /\ ActiveRows(github_apis, last.user_id) # {})
        => last.ret # None

\* C3: with set_active_api calls of one tenant running concurrently, no committed
\* state shows two active records of the tenant; a call returns true exactly when
\* its name has a record; and once two calls naming two different existing records
\* have both returned, exactly one record is active and it is one of the two named.
C3_NeverTwoActive ==
    \A u \in Tenants : Cardinality(ActiveRows(github_apis, u)) <= 1

C3_ReturnsFound ==
    \A c \in Connections :
        (task[c].pc = "put" /\ task'[c].pc = "idle")
            => /\ task'[c].found = HasRecord(task[c].user_id, task[c].api_name)
               /\ last'.ret = Bool(task'[c].found)

C3_BothReturned ==
    \A c1, c2 \in Connections :
        (/\ c1 # c2
         /\ task[c1].pc = "idle" /\ task[c1].done /\ task[c1].found
         /\ task[c2].pc = "idle" /\ task[c2].done /\ task[c2].found
         /\ task[c1].user_id = task[c2].user_id
         /\ task[c1].api_name # task[c2].api_name)
            => \E i \in DOMAIN github_apis :
                  /\ ActiveRows(github_apis, task[c1].user_id) = {i}
                  /\ github_apis[i].api_name \in {task[c1].api_name, task[c2].api_name}

C3_ConcurrentSetActive ==
    /\ []C3_NeverTwoActive
    /\ [][C3_ReturnsFound]_vars
    /\ []C3_BothReturned

\* C3 witness: two calls that overlapped, naming different existing records of one
\* tenant, have both returned, with a third record in the table.
C3_Witness ==
    /\ task["c1"].pc = "idle" /\ task["c1"].done /\ task["c1"].found
    /\ task["c2"].pc = "idle" /\ task["c2"].done /\ task["c2"].found
    /\ task["c1"].overlapped /\ task["c2"].overlapped
    /\ task["c1"].user_id = task["c2"].user_id
    /\ task["c1"].api_name # task["c2"].api_name
    /\ last.op = "set_active_api"
    /\ Len(github_apis) = 3

\* the (tenant, name) pairs of the committed records that are active
ActiveNames(table) ==
    {<<table[i].user_id, table[i].api_name>> : i \in {j \in DOMAIN table : table[j].is_active}}

\* the (tenant, name) pairs of the committed records
StoredNames(table) == {<<table[i].user_id, table[i].api_name>> : i \in DOMAIN table}

\* C17 (failure): a set_active_api call in which the persistence layer raised, at
\* the deactivate-all statement, at the activate statement or at commit, returns
\* false and leaves the committed table as it was.
C17_FailedCallChangesNothing ==
    (last'.op = "set_active_api" /\ last'.note = "error" /\ last' # last) =>
        /\ last'.ret = Bool(FALSE)
        /\ github_apis' = github_apis

\* C17 (no partial commit): a committed record that is active and is still stored
\* after a step is inactive after it only if the step is a successful
\* set_active_api call of its tenant, which leaves the named record active.
C17_DeactivateOnlyWithActivate ==
    \A k \in ActiveNames(github_apis) \cap StoredNames(github_apis') :
        k \notin ActiveNames(github_apis') =>
            /\ last'.op = "set_active_api"
            /\ last'.user_id = k[1]
            /\ last'.ret = Bool(TRUE)
            /\ <<last'.user_id, last'.api_name>> \in ActiveNames(github_apis')

C17_SetActiveAllOrNothing ==
    [][C17_FailedCallChangesNothing /\ C17_DeactivateOnlyWithActivate]_vars

\* set_active_api, naming a stored record, failed with a persistence error for a
\* tenant whose other record is active: that record is still active and no
\* connection holds an open transaction
C17_Witness ==
    /\ last.op = "set_active_api" /\ last.note = "error"
    /\ HasRecord(last.user_id, last.api_name)
    /\ \E i \in ActiveRows(github_apis, last.user_id) :
          github_apis[i].api_name # last.api_name
    /\ \A c \in Connections : conn[c].pending = <<>>

----------------------------------------------------------------------------
(* Properties of batch visibility changes *)

\* the distinct (owner, repo) pairs of a parsed list
DistinctPairs(repo_list) == {repo_list[i] : i \in DOMAIN repo_list}

\* how many remote calls `op` the running batch has issued for the pair
CallsFor(op, pair) ==
    Cardinality({i \in DOMAIN remote_calls :
                    /\ remote_calls[i].op = op
                    /\ remote_calls[i].owner = pair[1]
                    /\ remote_calls[i].repo_name = pair[2]})

\* the batches the claims on confirmed batches speak of: started from the button
\* the confirmation offered
ConfirmedBatch == batch.pc # "idle" /\ batch.offered

\* C9: once a batch has made its remote calls, the result map has one entry per
\* distinct (owner, repo) pair of the list (never more entries than the list has),
\* every distinct pair has been sent exactly one setVisibility call, and in toggle
\* mode at most one getRepository call.
C9_OneCallPerDistinctPair ==
    (ConfirmedBatch /\ batch.pc \in {"persist", "done"}) =>
        /\ Len(batch.results) = Cardinality(DistinctPairs(batch.repo_list))
        /\ Len(batch.results) <= Len(batch.repo_list)
        /\ \A pair \in DistinctPairs(batch.repo_list) :
              /\ CallsFor("toggle_repository_visibility", pair) <= 1
              /\ CallsFor("get_repository", pair)
                    <= (IF batch.visibility_action = "toggle" THEN 1 ELSE 0)
              /\ (\E i \in DOMAIN batch.results :
                     /\ batch.results[i][1] = full_name(pair[1], pair[2])
                     /\ batch.results[i][2][3] # "unknown")
                    => CallsFor("toggle_repository_visibility", pair) = 1

\* C10: the command answers a list of more than MAX_BATCH entries with the
\* count-exceeded error and offers no confirmation, it accepts a list of exactly
\* MAX_BATCH entries, and no batch of more than MAX_BATCH entries ever issues a
\* remote call, whichever handler started it.
C10_CapOnEveryPath ==
    /\ (reply.to = "batch_toggle_command" /\ reply.count > MAX_BATCH) =>
          (reply.text = "Too Many Repositories" /\ reply.buttons = {})
    /\ (reply.to = "batch_toggle_command" /\ reply.count = MAX_BATCH) =>
          (reply.text = "Batch Toggle Confirmation" /\ reply.buttons # {})
    /\ Len(batch.repo_list) > MAX_BATCH => remote_calls = <<>>

\* the batch has made all its remote calls
BatchCallsMade == batch.pc \in {"persist", "done"}

\* the positions in remote_calls of the calls made for the pair
CallIdx(pair) ==
    {i \in DOMAIN remote_calls :
        remote_calls[i].owner = pair[1] /\ remote_calls[i].repo_name = pair[2]}

\* the last remote call made for the pair
LastCall(pair) ==
    remote_calls[CHOOSE i \in CallIdx(pair) : \A j \in CallIdx(pair) : j <= i]

\* the last setVisibility call the remote service accepted for the pair, if any
AcceptedIdx(pair) ==
    {i \in CallIdx(pair) :
        remote_calls[i].op = "toggle_repository_visibility" /\ remote_calls[i].ok}

\* the call each list entry begins with: the read in toggle mode, else the write
LeadOp ==
    IF batch.visibility_action = "toggle" THEN "get_repository"
    ELSE "toggle_repository_visibility"

\* the pairs of the calls that begin a list entry, in the order issued
LeadPairs ==
    LET lead == SelectSeq(remote_calls, LAMBDA c : c.op = LeadOp)
    IN  [i \in DOMAIN lead |-> <<lead[i].owner, lead[i].repo_name>>]

\* the result recorded for the pair
ResultOf(pair) ==
    LET i == CHOOSE k \in DOMAIN batch.results :
                 batch.results[k][1] = full_name(pair[1], pair[2])
    IN  batch.results[i][2]

\* the pairs the result map has an entry for
ResultPairs == {split_full_name(batch.results[i][1]) : i \in DOMAIN batch.results}

\* C11: when a batch has made its calls, the result map has exactly one entry per
\* distinct pair of the list; every list entry had its remote call issued, in list
\* order, whatever the outcome of the calls before it; a pair's success flag is the
\* outcome of its own last call; and a repository whose change the remote service
\* accepted still has the visibility of the last accepted change.
C11_PartialFailureIsolated ==
    BatchCallsMade =>
        /\ ResultPairs = DistinctPairs(batch.repo_list)
        /\ Len(batch.results) = Cardinality(DistinctPairs(batch.repo_list))
        /\ LeadPairs = batch.repo_list
        /\ \A pair \in DistinctPairs(batch.repo_list) :
              /\ ResultOf(pair)[1] =
                    (LastCall(pair).op = "toggle_repository_visibility" /\ LastCall(pair).ok)
              /\ AcceptedIdx(pair) # {} =>
                    LET last_ok == CHOOSE i \in AcceptedIdx(pair) :
                                       \A j \in AcceptedIdx(pair) : j <= i
                    IN  remote[pair] = IF remote_calls[last_ok].make_private
                                       THEN "private" ELSE "public"

\* a batch of three pairs whose second request raised has finished: three results,
\* the first and the third successful, the second failed
C11_Witness ==
    /\ batch.pc = "done"
    /\ batch.repo_list = <<<<"a", "r01">>, <<"a", "u">>, <<"a", "y">>>>
    /\ Len(batch.results) = 3
    /\ ResultOf(<<"a", "r01">>)[1]
    /\ ~ResultOf(<<"a", "u">>)[1]
    /\ ResultOf(<<"a", "y">>)[1]
    /\ \E i \in DOMAIN remote_calls :
          remote_calls[i].repo_name = "u" /\ remote_calls[i].status = 0

\* the step in which the batch, in toggle mode, calls setVisibility for entry i
ToggleModeWrite ==
    batch.pc = "toggle" /\ batch.visibility_action = "toggle" /\ batch'.pc = "sleep"

\* C13: in toggle mode every setVisibility call follows the getRepository call of
\* the same list entry that returned the repository, carries makePrivate = the
\* negation of the private flag that call returned, and the entry's result is
\* tagged "private" when makePrivate is true and "public" otherwise.
C13_Step ==
    ToggleModeWrite =>
        LET pair == batch.repo_list[batch.i]
            read == remote_calls[Len(remote_calls)]
            write == remote_calls'[Len(remote_calls')]
            k == CHOOSE n \in DOMAIN batch'.results :
                     batch'.results[n][1] = full_name(pair[1], pair[2])
        IN  /\ Len(remote_calls') = Len(remote_calls) + 1
            /\ read.op = "get_repository" /\ read.ok
            /\ <<read.owner, read.repo_name>> = pair
            /\ write.op = "toggle_repository_visibility"
            /\ <<write.owner, write.repo_name>> = pair
            /\ batch.repo_info.kind = "dict"
            /\ write.make_private = ~batch.repo_info.private
            /\ batch'.results[k][2][3] = IF write.make_private THEN "private" ELSE "public"

C13_ToggleNegatesOwnFlag == [][C13_Step]_vars

\* toggle mode has just changed a repository that getRepository reported public:
\* the call carried makePrivate = TRUE and the result is tagged "private"
C13_Witness ==
    /\ batch.pc = "sleep" /\ batch.visibility_action = "toggle"
    /\ batch.repo_info # None /\ ~batch.repo_info.private
    /\ remote_calls # <<>>
    /\ remote_calls[Len(remote_calls)].op = "toggle_repository_visibility"
    /\ remote_calls[Len(remote_calls)].make_private
    /\ ResultOf(batch.repo_list[batch.i])[3] = "private"
    /\ \E j \in DOMAIN remote_calls :
          remote_calls[j].op = "toggle_repository_visibility"
             /\ ~remote_calls[j].make_private

\* the step in which the batch, in toggle mode, reads entry i
ToggleModeRead == batch.pc = "get" /\ batch'.pc # "get"

\* C14: in toggle mode, when the getRepository call of a list entry is answered
\* "not found" or returns no repository, the entry's result becomes (failed,
\* "Repository not found", "unknown") and the batch goes to the next entry with no
\* setVisibility call; hence every setVisibility call of a toggle-mode batch comes
\* directly after a getRepository call of the same pair that returned the
\* repository.
C14_Step ==
    ToggleModeRead =>
        LET pair == batch.repo_list[batch.i]
            read == remote_calls'[Len(remote_calls')]
            k == CHOOSE n \in DOMAIN batch'.results :
                     batch'.results[n][1] = full_name(pair[1], pair[2])
        IN  /\ remote_calls' = Append(remote_calls, read)
            /\ read.op = "get_repository"
            /\ (read.status = 404 \/ ~read.ok) =>
                  /\ batch'.pc = "sleep"
                  /\ batch'.results[k][2] = <<FALSE, <<"Repository not found">>, "unknown">>

C14_NoWriteWithoutRead ==
    batch.visibility_action = "toggle" =>
        \A j \in DOMAIN remote_calls :
            remote_calls[j].op = "toggle_repository_visibility" =>
                /\ j > 1
                /\ remote_calls[j - 1].op = "get_repository"
                /\ remote_calls[j - 1].ok
                /\ remote_calls[j - 1].owner = remote_calls[j].owner
                /\ remote_calls[j - 1].repo_name = remote_calls[j].repo_name

C14_AbsentIsNotFound == [][C14_Step]_vars /\ []C14_NoWriteWithoutRead

\* a toggle-mode batch naming the missing repository a/z has finished: one read
\* answered 404, no write for the pair, the result failed "Repository not found"
C14_Witness ==
    /\ batch.pc = "done" /\ batch.visibility_action = "toggle"
    /\ <<"a", "z">> \in DistinctPairs(batch.repo_list)
    /\ CallsFor("get_repository", <<"a", "z">>) = 1
    /\ LastCall(<<"a", "z">>).status = 404
    /\ CallsFor("toggle_repository_visibility", <<"a", "z">>) = 0
    /\ ResultOf(<<"a", "z">>) = <<FALSE, <<"Repository not found">>, "unknown">>
    /\ \E pair \in DistinctPairs(batch.repo_list) : ResultOf(pair)[1]

\* C15: a batch in private or public mode issues no getRepository call; every
\* remote call it makes is a setVisibility call with makePrivate = TRUE in private
\* mode and FALSE in public mode, and every result is tagged with the mode.
C15_FixedModeWritesOnly ==
    batch.visibility_action \in {"private", "public"} =>
        /\ \A j \in DOMAIN remote_calls :
              /\ remote_calls[j].op = "toggle_repository_visibility"
              /\ remote_calls[j].make_private = (batch.visibility_action = "private")
        /\ \A k \in DOMAIN batch.results :
              batch.results[k][2][3] = batch.visibility_action
        /\ Len(remote_calls) = IF batch.pc \in {"sleep", "persist", "done"}
                               THEN (IF batch.pc = "sleep" THEN batch.i
                                     ELSE Len(batch.repo_list))
                               ELSE batch.i - 1

\* a public-mode batch of several repositories has finished, one of them private
\* before: every call was a write
C15_Witness ==
    /\ batch.pc = "done" /\ batch.visibility_action = "public"
    /\ Len(remote_calls) = 3
    /\ <<"a", "y">> \in DistinctPairs(batch.repo_list)
    /\ ResultOf(<<"a", "y">>) = <<TRUE, <<"Repository is now", "y", "public">>, "public">>
    /\ remote[<<"a", "y">>] = "public"

\* C16: get_repository returns absent (None) only when the response was 404 "not
\* found"; after any other non-success response, and after a transport fault, what
\* it returned is not the absent value.
C16_AbsentOnlyWhenNotFound ==
    (/\ batch.visibility_action = "toggle"
     /\ remote_calls # <<>>
     /\ remote_calls[Len(remote_calls)].op = "get_repository"
     /\ batch.repo_info = None)
        => remote_calls[Len(remote_calls)].status = 404

\* the step that ends a batch
BatchCompletes == batch.pc = "persist" /\ batch'.pc = "done"

\* the rows of the repository-status cache for (tenant, owner, repo)
CacheRows(table, user_id, pair) ==
    {i \in DOMAIN table :
        /\ table[i].user_id = user_id
        /\ table[i].owner = pair[1]
        /\ table[i].repo_name = pair[2]}

\* C19: the step that completes a batch appends to the audit log exactly one
\* entry per entry of the result map, in its order, each for the batch's tenant
\* with action "batch_<mode>", the pair's "owner/repo" and status "success" or
\* "failed" as the pair's result says; and for every successful pair the cache then
\* holds exactly one row for (tenant, owner, repo), with the pair's resulting
\* visibility.
C19_Step ==
    BatchCompletes =>
        /\ Len(audit_logs') = Len(audit_logs) + Len(batch.results)
        /\ SubSeq(audit_logs', 1, Len(audit_logs)) = audit_logs
        /\ \A k \in DOMAIN batch.results :
              /\ audit_logs'[Len(audit_logs) + k] =
                    [user_id |-> batch.user_id,
                     action |-> <<"batch_", batch.visibility_action>>,
                     repository |-> batch.results[k][1],
                     status |-> IF batch.results[k][2][1] THEN "success" ELSE "failed"]
              /\ batch.results[k][2][1] =>
                    LET rows == CacheRows(repositories', batch.user_id,
                                          split_full_name(batch.results[k][1]))
                    IN  /\ Cardinality(rows) = 1
                        /\ \A i \in rows :
                              repositories'[i].current_visibility = batch.results[k][2][3]

----------------------------------------------------------------------------
(* Properties of batch_toggle_visibility *)

\* the tasks whose request is out
InFlight == {i \in DOMAIN gather.toggle_single : gather.toggle_single[i] = "in_flight"}

\* the tasks that hold a slot of the semaphore
Admitted ==
    {i \in DOMAIN gather.toggle_single :
        gather.toggle_single[i] \in {"in_flight", "sleeping"}}

\* C12: at no moment of a batch are more than SEMAPHORE = 3 remote calls in
\* flight, however many repositories the batch names; a task beyond the bound is
\* still waiting whenever all slots are held, and the slots held and free always
\* add up to the bound.
C12_AtMostThreeInFlight ==
    gather.pc = "running" =>
        /\ Cardinality(InFlight) <= SEMAPHORE
        /\ Cardinality(Admitted) + gather.semaphore = SEMAPHORE
        /\ gather.semaphore >= 0

\* three requests are in flight and later tasks of the batch wait for a slot
C12_Witness ==
    /\ gather.pc = "running"
    /\ Cardinality(InFlight) = SEMAPHORE
    /\ \E i \in DOMAIN gather.toggle_single : gather.toggle_single[i] = "waiting"

\* the pairs of a list in the order of their first occurrence
RECURSIVE FirstOccurrences(_)
FirstOccurrences(repo_list) ==
    IF repo_list = <<>> THEN <<>>
    ELSE LET front == SubSeq(repo_list, 1, Len(repo_list) - 1)
             final == repo_list[Len(repo_list)]
         IN  IF \E i \in DOMAIN front : front[i] = final
             THEN FirstOccurrences(front)
             ELSE Append(FirstOccurrences(front), final)

\* the pairs of a result map in the order the map lists them
KeyOrder(results) == [i \in DOMAIN results |-> split_full_name(results[i][1])]

\* C18: the result map batch_toggle_visibility returns lists the pairs in the order
\* of their first occurrence in the input list, in whatever order the requests
\* were admitted and answered.
C18_ResultsInInputOrder ==
    gather.pc = "done" => KeyOrder(gather.results) = FirstOccurrences(gather.repos)

----------------------------------------------------------------------------
(* Properties of the cipher *)

\* C20: whatever the process key and the secret, every ciphertext either
\* implementation made of the secret is decrypted by either implementation to the
\* secret itself, also when the secret was encrypted twice.
C20_RoundTrip ==
    crypt.pc = "decrypted" =>
        /\ Len(crypt.decrypted) = Len(crypt.encrypted)
        /\ \A i \in DOMAIN crypt.decrypted :
              crypt.decrypted[i] = [ok |-> TRUE, val |-> crypt.secret]

\* under a key longer than KEY_LEN a secret was encrypted by both implementations
\* into two different ciphertexts, and both were decrypted to it
C20_Witness ==
    /\ crypt.pc = "decrypted"
    /\ Len(crypt.ENCRYPTION_KEY) > KEY_LEN
    /\ crypt.encrypted_by = <<"Database", "encryption">>
    /\ crypt.decrypted_by = "Database"
    /\ crypt.encrypted[1] # crypt.encrypted[2]
    /\ crypt.encrypted[1][2].key = crypt.encrypted[2][2].key
    /\ crypt.decrypted = <<[ok |-> TRUE, val |-> crypt.secret],
                           [ok |-> TRUE, val |-> crypt.secret]>>
    /\ crypt.secret = "test_github_token_12345"

\* the ciphertexts are decrypted under the key material they were made with
SameKeyMaterial ==
    ljust_truncate(crypt.ENCRYPTION_KEY) = ljust_truncate(crypt.encrypted_under)

\* C21 as stated: whenever the configured secret at decryption differs from the one
\* at encryption, or the ciphertext was cut or tampered with, decryption fails and
\* yields no plaintext.
C21_DifferentSecretFails ==
    (crypt.pc = "decrypted"
        /\ (crypt.ENCRYPTION_KEY # crypt.encrypted_under \/ crypt.damage # "none"))
        => \A i \in DOMAIN crypt.decrypted : ~crypt.decrypted[i].ok

\* C21 amended: whenever the key material derived from the configured secret at
\* decryption (the secret padded with blanks or cut to 32 bytes) differs from the
\* key material at encryption, or the ciphertext was cut or tampered with,
\* decryption fails with an error and yields no plaintext.
C21_DifferentKeyMaterialFails ==
    (crypt.pc = "decrypted" /\ (~SameKeyMaterial \/ crypt.damage # "none"))
        => \A i \in DOMAIN crypt.decrypted :
              /\ ~crypt.decrypted[i].ok
              /\ crypt.decrypted[i].val \in {"InvalidToken", "binascii.Error"}

\* a ciphertext made under one secret was decrypted under a secret with other key
\* material, undamaged: the decryption failed
C21_Witness ==
    /\ crypt.pc = "decrypted"
    /\ ~SameKeyMaterial
    /\ crypt.damage = "none"
    /\ crypt.decrypted = <<[ok |-> FALSE, val |-> "InvalidToken"]>>

----------------------------------------------------------------------------
(* Properties of the credential commands *)

\* the credentials a step inserts or overwrites: (tenant, name, stored token,
\* principal) of the rows that were not there before
WrittenCredentials ==
    {<<github_apis'[i].user_id, github_apis'[i].api_name, github_apis'[i].github_token,
       github_apis'[i].github_username>> : i \in DOMAIN github_apis'}
    \ {<<github_apis[i].user_id, github_apis[i].api_name, github_apis[i].github_token,
         github_apis[i].github_username>> : i \in DOMAIN github_apis}

\* the step is an /add_api whose validation request was not answered with 200
ValidationFailed ==
    /\ remote_calls' # <<>>
    /\ remote_calls'[1].op = "validate_token"
    /\ remote_calls'[1].status # 200

\* C22: a step of the credential commands inserts or overwrites a credential only
\* as /add_api after its validate_token request for the supplied token was
\* answered with 200; the stored token is the supplied one and the stored
\* principal is the login that response carried. A step whose validation failed
\* leaves the credential table and the audit log as they were.
C22_Step ==
    /\ \A w \in WrittenCredentials :
          /\ reply'.to = "add_api_command"
          /\ Len(remote_calls') = 1
          /\ remote_calls'[1].op = "validate_token"
          /\ remote_calls'[1].status = 200
          /\ remote_calls'[1].ok
          /\ decrypt_token(cipher, w[3]) = [ok |-> TRUE, val |-> remote_calls'[1].token]
          /\ w[4] = http_get_user(remote_calls'[1].token, "up").login
    /\ ValidationFailed =>
          /\ github_apis' = github_apis
          /\ conn' = conn
          /\ audit_logs' = audit_logs

C22_StoredOnlyAfterValidation == [][C22_Step]_vars

\* a token the remote service rejected was refused with nothing stored or logged,
\* while the credential stored before under a validated token is still there with
\* the login of its account
C22_Witness ==
    /\ reply = Message("add_api_command", "Invalid GitHub Token")
    /\ remote_calls # <<>>
    /\ remote_calls[1].status = 401
    /\ Len(github_apis) = 1
    /\ github_apis[1].github_username = "octo2"
    /\ Len(audit_logs) = 1

----------------------------------------------------------------------------
(* Pacing and completion of batch_toggle_visibility *)

\* the tasks asleep in asyncio.sleep with their slot held
Sleeping == {i \in DOMAIN gather.toggle_single : gather.toggle_single[i] = "sleeping"}

\* the tasks a step lets through the semaphore
NewlyAdmitted ==
    {i \in DOMAIN gather.toggle_single :
        gather.toggle_single[i] = "waiting" /\ gather'.toggle_single[i] # "waiting"}

\* C23: when the remote call of a task ends, with any outcome, the task goes to
\* sleep with its slot still held; a slot comes back only as a sleep ends, one
\* per step; and a waiting task is let through only while fewer than SEMAPHORE
\* tasks are in flight or asleep, so none enters between the end of a call and
\* the end of the sleep that follows it on a slot freed by that call.
C23_Step ==
    gather.pc = "running" /\ gather'.pc = "running" =>
        /\ \A i \in InFlight :
              gather'.toggle_single[i] # "in_flight" =>
                 /\ gather'.toggle_single[i] = "sleeping"
                 /\ gather'.semaphore = gather.semaphore
                 /\ NewlyAdmitted = {}
        /\ gather'.semaphore > gather.semaphore =>
              /\ gather'.semaphore = gather.semaphore + 1
              /\ \E i \in Sleeping :
                    /\ gather'.toggle_single[i] = "done"
                    /\ \A j \in DOMAIN gather.toggle_single \ {i} :
                          gather'.toggle_single[j] = gather.toggle_single[j]
        /\ NewlyAdmitted # {} =>
              /\ Cardinality(InFlight \cup Sleeping) < SEMAPHORE
              /\ gather'.semaphore = gather.semaphore - 1

C23_DelayBeforeRelease == [][C23_Step]_vars

\* every slot is held, one of them by a task asleep after a request that raised
\* and one by a task asleep after a request that succeeded, while a later task
\* still waits
C23_Witness ==
    /\ gather.pc = "running"
    /\ gather.semaphore = 0
    /\ \E i \in Sleeping :
          http_patch_repo(gather.repos[i][1], gather.repos[i][2]).raised
    /\ \E i \in Sleeping :
          http_patch_repo(gather.repos[i][1], gather.repos[i][2]).status = 200
    /\ \E i \in DOMAIN gather.toggle_single : gather.toggle_single[i] = "waiting"

\* the entries of the result map for the pair of task i
EntriesOf(i) ==
    {k \in DOMAIN gather.results :
        gather.results[k][1] = full_name(gather.repos[i][1], gather.repos[i][2])}

\* batch_toggle_visibility has returned with every task ended and, for every pair
\* of the list, one entry in the result map, a failed one where the request raised
ReturnedComplete ==
    gather.pc = "done" =>
        \A i \in DOMAIN gather.repos :
           /\ gather.toggle_single[i] = "done"
           /\ Cardinality(EntriesOf(i)) = 1
           /\ http_patch_repo(gather.repos[i][1], gather.repos[i][2]).raised =>
                 \A k \in EntriesOf(i) :
                    gather.results[k][2] =
                       <<FALSE,
                         <<http_patch_repo(gather.repos[i][1], gather.repos[i][2]).message>>>>

\* C24: when every request is answered or fails in the end, a batch that was
\* started returns, with no task left at the semaphore; it returns only after
\* every task has ended; and a request that raised has become a failed entry of
\* the result map for its pair, the batch returning all the same.
C24_BatchTerminates ==
    /\ (gather.pc = "running") ~> (gather.pc = "done")
    /\ []ReturnedComplete

\* a batch of more tasks than slots, one of whose requests raised, has returned
\* with a failed entry for that pair and successful entries for others
C24_Witness ==
    /\ gather.pc = "done"
    /\ Len(gather.repos) > SEMAPHORE
    /\ \E i \in DOMAIN gather.repos :
          /\ http_patch_repo(gather.repos[i][1], gather.repos[i][2]).raised
          /\ \A k \in EntriesOf(i) : ~gather.results[k][2][1]
    /\ \E k \in DOMAIN gather.results : gather.results[k][2][1]

----------------------------------------------------------------------------
(* Properties of get_user_apis *)

\* the last call was a get_user_apis that did not fail
Listed == last.op = "get_user_apis" /\ last.note = "-"

\* the list holds each stored row of the tenant once and nothing else; every row
\* of it carries the stored ciphertext, which is not the plaintext that was added
\* and decrypts to it
ListsStoredRows ==
    Listed =>
        LET rows == last.ret.rows
            stored == {i \in DOMAIN github_apis : github_apis[i].user_id = last.user_id}
        IN  /\ {rows[k] : k \in DOMAIN rows} = {github_apis[i] : i \in stored}
            /\ Len(rows) = Cardinality(stored)
            /\ \A k \in DOMAIN rows :
                  LET plain == added[<<rows[k].user_id, rows[k].api_name>>][1]
                  IN  /\ rows[k].github_token # plain
                      /\ decrypt_token(cipher, rows[k].github_token) =
                            [ok |-> TRUE, val |-> plain]

\* a list taken after an add_github_api of the same tenant succeeded begins with
\* the record that was added or re-added, and the records listed before keep
\* their order behind it
NewestFirstStep ==
    /\ (Listed' /\ last' # last /\ last.op = "add_github_api" /\ last.ret = Bool(TRUE)
           /\ last'.user_id = last.user_id) =>
          (LET rows == last'.ret.rows
           IN  /\ rows # <<>>
               /\ rows[1].api_name = last.api_name
               /\ \A k \in 2..Len(rows) : rows[k].api_name # last.api_name)
    /\ (Listed' /\ Listed /\ last'.user_id = last.user_id) => (last'.ret = last.ret)

\* C25: get_user_apis(T), when it does not fail, returns every stored record of
\* tenant T once and no other record, each with the stored ciphertext as its
\* secret and never the plaintext; after a record of T was added or re-added the
\* list begins with that record.
C25_ListsAllNewestFirst == []ListsStoredRows /\ [][NewestFirstStep]_vars

\* tenant t1's two records were listed, the record named "work" first, while
\* the table also holds a record of the other tenant
C25_Witness ==
    /\ Listed
    /\ last.user_id = "t1"
    /\ Len(last.ret.rows) = 2
    /\ last.ret.rows[1].api_name = "work"
    /\ Len(github_apis) = 3
    /\ last.ret.rows[1] = github_apis[3]
    /\ github_apis[2].user_id = "t2"

----------------------------------------------------------------------------
(* Authorization of commands and callbacks *)

\* the step is a credential command or a remove_api callback issued by user_id
IssuedBy(user_id) ==
    \/ \E args \in AddArgs, net \in {"up", "down"}, f \in {"none", "stmt2"} :
          add_api_command(user_id, args, net, "iv1", f)
    \/ \E args \in {<<"work">>, <<"home">>, <<>>}, f \in {"none", "commit"} :
          load_api_command(user_id, args, f)
    \/ \E n \in Names, f \in {"none", "commit"} :
          button_callback_remove_api(user_id, n, f)

\* C26: a credential command or remove_api callback issued by a user who is not
\* authorized leaves the credential table, the repository-status cache and the
\* audit log as they were and issues no remote call.
C26_Step ==
    \A u \in Tenants \ ADMIN_USER_IDS :
        IssuedBy(u) =>
            /\ github_apis' = github_apis
            /\ repositories' = repositories
            /\ audit_logs' = audit_logs
            /\ remote_calls' = <<>>

C26_UnauthorizedChangesNothing == [][C26_Step]_vars

----------------------------------------------------------------------------
(* Properties of user management *)

\* what get_user would return for every user but user_id is as before the step
OthersKept(user_id) ==
    \A v \in Tenants \ {user_id} : fetch_user(users', v) = fetch_user(users, v)

\* get_user(user_id) would return a record whose is_authorized is true
Authorized(table, user_id) ==
    fetch_user(table, user_id) # None /\ fetch_user(table, user_id).row.is_authorized

\* C27: create_user(u, name) returns true; for a user without a record get_user(u)
\* then returns (u, name, is_authorized = false), for a user with a record it
\* returns what it returned before. authorize_user(u) and revoke_user(u) make
\* is_authorized of u's record true and false and keep its other fields;
\* is_authorized of a record turns false in no step but revoke_user(u). No call
\* changes what get_user returns for another user, and get_user changes nothing.
C27_Step ==
    /\ \A u \in Tenants, name \in UserNames :
          create_user(u, name) =>
             /\ last'.ret = Bool(TRUE)
             /\ fetch_user(users', u) =
                   IF fetch_user(users, u) = None THEN Dict(UserRow(u, name, FALSE))
                   ELSE fetch_user(users, u)
             /\ OthersKept(u)
    /\ \A u \in Tenants :
          authorize_user(u) =>
             /\ last'.ret = Bool(TRUE)
             /\ fetch_user(users, u) # None =>
                   fetch_user(users', u) =
                      Dict([fetch_user(users, u).row EXCEPT !.is_authorized = TRUE])
             /\ OthersKept(u)
    /\ \A u \in Tenants :
          revoke_user(u) =>
             /\ last'.ret = Bool(TRUE)
             /\ fetch_user(users, u) # None =>
                   fetch_user(users', u) =
                      Dict([fetch_user(users, u).row EXCEPT !.is_authorized = FALSE])
             /\ OthersKept(u)
    /\ \A u \in Tenants :
          (Authorized(users, u) /\ ~Authorized(users', u)) => revoke_user(u)
    /\ \A u \in Tenants :
          get_user(u) => (last'.ret = fetch_user(users, u) /\ users' = users)

C27_UserLifecycle == [][C27_Step]_vars

\* create_user was called under another name for a user who is registered and
\* authorized: it returned true, and the user is still authorized under the
\* first name
C27_Witness ==
    /\ last = Call("create_user", "t1", "-", "-", "-", <<"exists", "bob">>, Bool(TRUE))
    /\ fetch_user(users, "t1") = Dict(UserRow("t1", "alice", TRUE))
    /\ fetch_user(users, "t2") = Dict(UserRow("t2", "bob", FALSE))

----------------------------------------------------------------------------
(* Properties of the audit log *)

\* the entries of a user in the audit log, oldest first
EntriesOfUser(table, user_id) == SelectSeq(table, LAMBDA r : r.user_id = user_id)

\* the entry of a user written last, or None
Newest(table, user_id) ==
    LET mine == EntriesOfUser(table, user_id)
    IN  IF mine = <<>> THEN None ELSE Dict(mine[Len(mine)])

\* C28: log_action(u, a, r, s) that succeeds makes (u, a, r, s) the newest entry
\* of u and keeps every entry there was; the newest entry of u changes in no step
\* but a log_action for u; and get_user_logs(u, n), n >= 1, returns at most n
\* entries, all of u, the newest entry of u first and each next one older.
C28_Step ==
    /\ \A u \in Tenants, a \in {"add_api", "load_api"}, s \in {"success", "failed"} :
          db_log_action(u, a, "work", s, "none") =>
             /\ last'.ret = Bool(TRUE)
             /\ Newest(audit_logs', u) =
                   Dict([user_id |-> u, action |-> a, repository |-> "work", status |-> s])
             /\ SubSeq(audit_logs', 1, Len(audit_logs)) = audit_logs
    /\ \A u \in Tenants :
          Newest(audit_logs', u) # Newest(audit_logs, u) =>
             (last'.op = "log_action" /\ last'.user_id = u /\ last'.ret = Bool(TRUE))
    /\ \A u \in Tenants, n \in Limits :
          get_user_logs(u, n) =>
             LET rows == last'.ret.rows
                 mine == EntriesOfUser(audit_logs, u)
             IN  /\ Len(rows) <= n
                 /\ Len(rows) = IF Len(mine) < n THEN Len(mine) ELSE n
                 /\ \A k \in DOMAIN rows : rows[k] = mine[Len(mine) + 1 - k]
                 /\ rows # <<>> => Dict(rows[1]) = Newest(audit_logs, u)
                 /\ audit_logs' = audit_logs

C28_NewestLogFirst == [][C28_Step]_vars

\* get_user_logs("t1", 1) returned the one newest entry of t1 while the log
\* holds an older entry of t1 and, written after both, an entry of t2
C28_Witness ==
    /\ last.op = "get_user_logs"
    /\ last.user_id = "t1"
    /\ last.note = 1
    /\ Len(audit_logs) = 3
    /\ audit_logs[1].user_id = "t1"
    /\ audit_logs[2].user_id = "t1"
    /\ audit_logs[3].user_id = "t2"
    /\ audit_logs[1] # audit_logs[2]
    /\ last.ret.rows = <<audit_logs[2]>>

----------------------------------------------------------------------------
(* Properties of the repository-status cache *)

\* the cache entry for (tenant, owner, repo), or None
CacheEntry(table, user_id, pair) ==
    IF CacheRows(table, user_id, pair) = {} THEN None
    ELSE Dict(table[CHOOSE i \in CacheRows(table, user_id, pair) : TRUE])

\* the positions in a call log of the calls made for the pair
CallIdxIn(calls, pair) ==
    {i \in DOMAIN calls : calls[i].owner = pair[1] /\ calls[i].repo_name = pair[2]}

\* the last call a call log holds for the pair
LastCallIn(calls, pair) ==
    calls[CHOOSE i \in CallIdxIn(calls, pair) : \A j \in CallIdxIn(calls, pair) : j <= i]

\* the handler that made the step acts for user_id: it is that user's batch
\* completing or that user's /public or /private
ActsFor(user_id) ==
    \/ BatchCompletes /\ batch.user_id = user_id
    \/ reply'.to = "toggle_visibility_command" /\ last'.user_id = user_id

\* C29: the cache holds at most one entry per (tenant, owner, repo); no entry is
\* ever dropped; and a step that creates or changes the entry of (tenant, owner,
\* repo) is made by a handler acting for that tenant whose last remote call for
\* the pair was a setVisibility call sent with a token of that tenant and answered
\* with success, the entry then holding the visibility that call asked for. So a
\* pair whose call failed, was refused or was not found keeps its entry as it was.
C29_Step ==
    \A u \in Tenants, pair \in Pairs :
        /\ Cardinality(CacheRows(repositories', u, pair)) <= 1
        /\ CacheEntry(repositories, u, pair) # None =>
              CacheEntry(repositories', u, pair) # None
        /\ CacheEntry(repositories', u, pair) # CacheEntry(repositories, u, pair) =>
              /\ ActsFor(u)
              /\ CallIdxIn(remote_calls', pair) # {}
              /\ LET call == LastCallIn(remote_calls', pair)
                 IN  /\ call.op = "toggle_repository_visibility"
                     /\ call.ok
                     /\ call.status = 200
                     /\ call.token \in {added[<<u, n>>][1] : n \in Names}
                     /\ CacheEntry(repositories', u, pair).row.current_visibility =
                           IF call.make_private THEN "private" ELSE "public"

C29_CacheFollowsSuccess == [][C29_Step]_vars

\* a/y was changed with success twice, by a command and then by a batch that
\* set the other visibility: the cache holds one entry for it, with the later
\* visibility, and none for a/z and a/w, whose operations of the batch failed
C29_Witness ==
    /\ batch.pc = "done"
    /\ Cardinality({i \in DOMAIN audit_logs :
                       /\ audit_logs[i].repository = full_name("a", "y")
                       /\ audit_logs[i].status = "success"}) = 2
    /\ audit_logs[1].action = "make_public"
    /\ CacheEntry(repositories, "t1", <<"a", "y">>) =
          Dict([user_id |-> "t1", repo_name |-> "y", owner |-> "a",
                current_visibility |-> "private"])
    /\ CacheEntry(repositories, "t1", <<"a", "z">>) = None
    /\ CacheEntry(repositories, "t1", <<"a", "w">>) = None
    /\ \E i \in DOMAIN audit_logs :
          audit_logs[i].repository = full_name("a", "w") /\ audit_logs[i].status = "failed"

----------------------------------------------------------------------------
(* The credential of a batch *)

\* the tokens get_active_api can return for the user in the current state
ActiveTokens(user_id) ==
    {r.row.github_token : r \in ActiveApiOf(user_id) \ {None}}

\* a batch is between its start and its end
BatchRunning == batch.pc \in {"get", "toggle", "sleep", "persist"}

\* every remote call of the batch so far was sent with the batch's token
CallsUseBatchToken ==
    batch.pc # "idle" => \A i \in DOMAIN remote_calls : remote_calls[i].token = batch.token

\* the step that starts a batch takes the token of the credential active then;
\* no step of a running batch, and no vault call made meanwhile, changes it
TokenFixedStep ==
    /\ (~BatchRunning /\ BatchRunning') => batch'.token \in ActiveTokens(batch'.user_id)
    /\ BatchRunning => batch'.token = batch.token

\* C30: every remote call of a batch execution is sent with the token of the
\* credential that was the tenant's active one when the execution started,
\* whatever is added, re-added, activated or removed in the vault while the batch
\* runs.
C30_OneCredentialPerBatch == []CallsUseBatchToken /\ [][TokenFixedStep]_vars

\* a batch started under ghp_1 has made a call and is about to make another,
\* while the tenant's active credential is by now the one of ghp_2
C30_Witness ==
    /\ batch.pc \in {"get", "toggle"}
    /\ batch.i = 2
    /\ remote_calls # <<>>
    /\ batch.token = "ghp_1"
    /\ ActiveTokens("t1") = {"ghp_2"}

\* the set of pairs of a repository list
PairsOf(repo_list) == {repo_list[i] : i \in DOMAIN repo_list}

\* a step in which the button of the confirmation on display is pressed and a
\* batch starts
PressOfShown ==
    /\ batch.pc \in {"idle", "done"}
    /\ batch'.pc \notin {"idle", "done"}
    /\ executed' = executed + 1
    /\ batch'.offered
    /\ reply.text = "Batch Toggle Confirmation"

\* C31: when the button of a confirmation is pressed, the set of (owner, repo)
\* pairs the batch operates on equals the set of pairs the confirmation showed,
\* whatever was done to the user's credentials between the two.
C31_BatchOperatesOnShownPairs ==
    [][PressOfShown => PairsOf(batch'.repo_list) = PairsOf(reply.shown)]_vars

\* C31: a batch started from the confirmation's button after the active
\* credential was switched to one of another account, with a request sent for a
\* pair the confirmation did not show.
C31_Witness ==
    /\ batch.pc \notin {"idle", "done"}
    /\ batch.offered
    /\ batch.token = "ghp_2"
    /\ \E i \in DOMAIN remote_calls :
          remote_calls[i].owner = "octo2" /\ remote_calls[i].repo_name = "x"

\* C32 (the call): a set_active_api call that names no stored record returns
\* false, commits nothing, and hands its connection back without the
\* deactivate-all update pending on it.
C32_NotFoundStep ==
    \A u \in Tenants, n \in Names :
        (set_active_api(u, n, "none") /\ ~HasRecord(u, n)) =>
            /\ last'.ret = Bool(FALSE)
            /\ github_apis' = github_apis
            /\ \A c \in Connections : conn'[c].pending = <<>>

\* C32 (later operations): the committed is_active flag of a record that stays
\* stored changes only in a step of a set_active_api call of its tenant that
\* found its record and committed, never at the commit of another operation.
C32_FlagsChangeStep ==
    \A k \in StoredNames(github_apis) \cap StoredNames(github_apis') :
        ((k \in ActiveNames(github_apis)) # (k \in ActiveNames(github_apis'))) =>
            /\ last'.op = "set_active_api"
            /\ last'.user_id = k[1]
            /\ last'.note = "set"
            /\ last'.ret = Bool(TRUE)

\* C32: the deactivate-all update of a set_active_api call that returned false
\* for a missing record is never committed by a later operation on the pooled
\* connection; committed is_active flags change only at the commit of the
\* operation that wrote them.
C32_UncommittedNeverCommitted ==
    /\ [](\A c \in Connections : task[c].pc = "idle" => conn[c].pending = <<>>)
    /\ [][C32_NotFoundStep /\ C32_FlagsChangeStep]_vars

\* C32: a tenant with an active record called set_active_api for a name that is
\* not stored; the record is still active and two records are committed, so the
\* connection has since been, or will next be, used by a committing operation.
C32_Witness ==
    /\ last.op = "set_active_api" /\ last.note = "not found"
    /\ ~HasRecord(last.user_id, last.api_name)
    /\ ActiveRows(github_apis, last.user_id) # {}
    /\ Len(github_apis) >= 2

\* the committed records of a tenant, oldest first
RecordsOf(table, user_id) == SelectSeq(table, LAMBDA r : r.user_id = user_id)

\* C33 (writes): a step of add_github_api, set_active_api or remove_github_api
\* called for tenant T leaves the records of every other tenant as they were:
\* name, ciphertext, principal and is_active.
C33_OtherTenantsStep ==
    \A u \in Tenants, n \in Names :
        (\/ \E cr \in Credentials, iv \in VaultIVs :
                add_github_api(u, n, cr[1], cr[2], iv, "none")
         \/ set_active_api(u, n, "none")
         \/ remove_github_api(u, n, "none")) =>
            \A o \in Tenants \ {u} :
                RecordsOf(github_apis', o) = RecordsOf(github_apis, o)

\* C33 (reads): what get_active_api(T) and get_user_apis(T) returned is a record,
\* or a list of records, of tenant T.
C33_ReadsOwnRecords ==
    /\ (last.op = "get_active_api" /\ last.ret # None) =>
            last.ret.row.user_id = last.user_id
    /\ last.op = "get_user_apis" =>
            \A k \in DOMAIN last.ret.rows : last.ret.rows[k].user_id = last.user_id

\* C33: the writing calls of one tenant leave the records of every other tenant
\* unchanged, and the reading calls never return a record of another tenant.
C33_TenantIsolation == []C33_ReadsOwnRecords /\ [][C33_OtherTenantsStep]_vars

\* C33: both tenants hold a record under the same name, the other tenant's is
\* active, and set_active_api of the first tenant has just activated its own.
C33_Witness ==
    /\ last.op = "set_active_api" /\ last.ret = Bool(TRUE)
    /\ \E o \in Tenants \ {last.user_id} :
          /\ HasRecord(o, last.api_name)
          /\ ActiveRows(github_apis, o) # {}
    /\ ActiveRows(github_apis, last.user_id) # {}

\* a step in which a credential or repository command of the user is handled
FeatureCommand(user_id) ==
    \/ add_api_command(user_id, <<"work", "ghp_1">>, "up", "iv1", "none")
    \/ load_api_command(user_id, <<"work">>, "none")
    \/ batch_toggle_command(user_id, "", <<Item("a", "y")>>)
    \/ \E make_private \in BOOLEAN :
          toggle_visibility_command(user_id, Item("a", "y"), make_private)

\* C34: while the stored record of user U says authorized (after /authorize of U
\* by an admin and before a /revoke of U), U's credential and repository commands
\* are processed and not answered with "Access Denied".
C34_AuthorizedUserIsServed ==
    [][\A u \in Tenants :
          (Authorized(users, u) /\ FeatureCommand(u)) =>
              reply'.text # "Access Denied"]_vars

\* C34: the user who is not an administrator is stored as authorized and a
\* command of theirs has just been answered with "Access Denied".
C34_Witness ==
    /\ Authorized(users, "t2")
    /\ ~is_admin("t2")
    /\ reply.text = "Access Denied"

\* C38 (admins): no /revoke command, whoever sends it and whatever it names,
\* changes the stored record of a hardcoded admin.
C38_RevokeKeepsAdmins ==
    \A u \in Tenants, args \in UserArgs, f \in {"none", "stmt1"} :
        revoke_command(u, args, f) =>
            \A a \in ADMIN_USER_IDS : fetch_user(users', a) = fetch_user(users, a)

\* C38 (callers): /authorize and /revoke sent by a user who is not an admin leave
\* table users as it was.
C38_NonAdminChangesNothing ==
    \A u \in Tenants \ ADMIN_USER_IDS, args \in UserArgs, f \in {"none", "stmt1"} :
        (authorize_command(u, args, f) \/ revoke_command(u, args, f)) =>
            /\ users' = users
            /\ reply'.text = "Admin Access Required"

\* C38: /revoke never changes the stored authorization of a hardcoded admin, and
\* /authorize and /revoke issued by a non-admin change no user's stored
\* authorization.
C38_AdminGuards == [][C38_RevokeKeepsAdmins /\ C38_NonAdminChangesNothing]_vars

\* C38: the admin is stored as authorized and a /revoke naming the admin has
\* just been refused, with the other user stored as authorized as well.
C38_Witness ==
    /\ reply.to = "revoke_command" /\ reply.text = "Cannot Revoke Admin"
    /\ Authorized(users, "t1")
    /\ Authorized(users, "t2")

\* the history of calls holds a, b and c in this order
InOrder(calls, a, b, c) ==
    \E i, j, k \in DOMAIN calls :
        i < j /\ j < k /\ calls[i] = a /\ calls[j] = b /\ calls[k] = c

\* the graceful stop has been performed
GracefulStop ==
    InOrder(bot.calls, "updater.stop", "application.stop", "application.shutdown")

\* C35: after a signal is received while the bot is running in its polling
\* loop, the bot leaves the loop and then stops the updater, stops the
\* application and shuts the application down.
C35_SignalLeadsToGracefulStop ==
    (bot.pc = "loop" /\ bot.signalled) ~> (bot.pc = "returned" /\ GracefulStop)

\* C35: start() has returned after a signal received in the polling loop, the
\* updater and the application were started, and neither was stopped.
C35_Witness ==
    /\ bot.pc = "returned" /\ bot.signalled
    /\ "updater.start_polling" \in Called(bot.calls)
    /\ Called(bot.calls) \cap {"updater.stop", "application.stop", "application.shutdown"} = {}

\* C36: a Database operation holds at most one borrowed connection at a time
\* and has returned it when it returns, through its return statements and
\* through its except clause alike; when no operation runs, no connection is
\* borrowed.
C36_ConnectionsReturned ==
    /\ pool.held \in {0, 1}
    /\ pool.borrowed = pool.held
    /\ pool.pc \in {"except", "return", "idle"} => pool.held = 0
    /\ pool.pc = "idle" => pool.borrowed = 0

\* C36: create_user has returned its failure value after borrowing twice, once
\* in get_user and once for its own INSERT, which raised; nothing is borrowed.
C36_Witness ==
    /\ pool.pc = "idle" /\ pool.op = "create_user"
    /\ pool.gets = 2
    /\ pool.outcome = "raise" /\ pool.result = "failed"
    /\ pool.borrowed = 0

\* C37: a /public or /private command that reaches the remote call issues one
\* setVisibility call and appends one audit entry for owner/repo, whose action
\* is make_public or make_private as the command was and whose status is
\* "success" if the remote call succeeded and "failed" if it did not; a command
\* that does not reach the remote call writes no entry.
C37_Step ==
    \A u \in Tenants, item \in CacheItems, make_private \in BOOLEAN :
        toggle_visibility_command(u, item, make_private) =>
            IF remote_calls' = <<>> THEN audit_logs' = audit_logs
            ELSE LET call == remote_calls'[1]
                     entry == audit_logs'[Len(audit_logs')]
                 IN  /\ Len(remote_calls') = 1
                     /\ call.op = "toggle_repository_visibility"
                     /\ call.repo_name = item.repo
                     /\ call.make_private = make_private
                     /\ call.ok <=> call.status = 200
                     /\ audit_logs' = Append(audit_logs, entry)
                     /\ entry.user_id = u
                     /\ entry.repository = full_name(call.owner, call.repo_name)
                     /\ entry.action = IF make_private THEN "make_private" ELSE "make_public"
                     /\ entry.status = IF call.ok THEN "success" ELSE "failed"

============================================================================
